---- MODULE Spec2Model ----
(***************************************************************************)
(* Model of the deployment pipeline of build_main.py: main() and the       *)
(* functions it calls (kill_qt_creator, bump_version, install_plugin,      *)
(* verify_plugin_installation, test_installation, ...).  The program       *)
(* counter pc is the position of the single orchestrating thread; the      *)
(* environment (target process, file system, RPC server, external          *)
(* commands) answers each step nondeterministically.                       *)
(***************************************************************************)
EXTENDS Integers, Sequences, FiniteSets, TLC

\* ------------------------------------------------------------------ bounds
\* Longest time (seconds) one external termination command takes to return.
MaxCmdDur == 1
\* Largest patch number found in version.cmake when the run starts.
MaxPatch == 1

\* ------------------------------------------------------- program constants
TimeoutSeconds == 30          \* kill_qt_creator(config, timeout_seconds=30)
MethodSleep == 1              \* time.sleep(1) after each termination command
CycleSleep == 2               \* time.sleep(2) at the end of an attempt cycle
Tolerance == 5                \* installed_time < built_time - 5
MinPatch == 1                 \* patch_version >= 1

Systems == {"windows", "darwin", "linux"}

\* The names of the stages, in the order main() runs them.
StageOrder ==
    << "Stopping", "VersionBump", "Configuring", "Building", "CleaningArtifacts",
       "Installing", "VerifyingInstall", "Launching", "Settle",
       "VerifyingFunctional" >>

\* ------------------------------------------------------------------- state
VARIABLES
    system,         \* platform.system().lower()
    samePath,       \* config["qt_creator_path"]/qtcreator/plugins is the directory install_plugin copies into
    config,         \* what get_qt_config() gave main: "none" (not called yet), "config", "RuntimeError"
    pc,             \* position of the orchestrating thread
    exitCode,       \* process exit code, -1 while the run has not ended
    endedAt,        \* stage in which the run ended, "none" while running
    done,           \* stage actions performed so far, in order
    failed,         \* stages that reported a failure
    nominal,        \* the environment has behaved as the success scenario requires
    running,        \* the target process is alive
    lastLive,       \* result of the most recent is_process_running(target): "none", "yes", "no"
    cmdSinceCheck,  \* a termination command was issued after the most recent liveness check
    elapsed,        \* time.time() - start_time inside kill_qt_creator
    cycleLog,       \* termination strategies issued in the current attempt cycle
    cycleStartLive, \* the target was alive when the current attempt cycle started
    killResult,     \* "none", "true", "false", "raised"
    forceIssued,    \* a forceful termination command has been issued in this run
    rpcUp,          \* the RPC endpoint accepts connections
    quitSent,       \* a "quit" RPC has been sent in this run
    cmakeState,     \* condition of version.cmake as the VersionBump stage finds it
    cmakePatch,     \* PLUGIN_VERSION_PATCH in version.cmake
    headerPatch,    \* PLUGIN_VERSION_PATCH in version.h, -1 when never generated
    reported,       \* the answer to "initialize" that test_mcp_version got (kind "none" before)
    cfgEnv,         \* what Configuring found: [probed, cache (CMakeCache.txt exists), qt_version (discovered)]
    built,          \* which build artifacts exist: [bin, json, disc]
    inst,           \* installed files per directory: [dll: file record, json: BOOLEAN]
    copied,         \* "ok": every artifact existed and its copy command succeeded; else "failed" ("none" before Installing)
    handlers,       \* run_command has installed signal_handler for SIGINT and SIGTERM
    mon,            \* the monitor thread: "none", "check", "sleep", "returned", "crashed"
    cmake,          \* the build process (cmake.exe): "none", "running", "gone"
    warned          \* where the monitor's warning found the main thread and the build process

\* State of the functions modelled call by call (run_command's polling loop,
\* verify_plugin_installation, the RPC functions, poll_build_status).  In the
\* pipeline's specification they stay idle; fn tells which one is exercised.
VARIABLES
    fn,             \* the function under exercise; "main" when the pipeline runs
    clock,          \* time.time(), in seconds
    rcCmd,          \* run_command: cmd, a sequence of words
    rcTimeout,      \* run_command: the timeout argument (NoTimeout: None)
    rcPc,           \* run_command: position
    rcStart,        \* run_command: start_time
    child,          \* the child process: [state, stubborn, rc, left]
    pipe,           \* lines the child wrote that run_command has not read yet
    output_lines,   \* run_command: output_lines
    rcResult,       \* run_command: the value returned ("none" until it returns)
    verifyArgs,     \* verify_plugin_installation: the files it finds
    verifyRet,      \* verify_plugin_installation: the value returned ("none" until it returns)
    response_data,  \* test_mcp_version: what the server answered to "initialize"
    versionRet,     \* test_mcp_version: the value returned ("none" until it returns)
    schema,         \* the tools listed in mcp.json ("unreadable" or a sequence)
    fname,          \* function_name given to the RPC call
    command,        \* send_mcp_command: the command text, parsed
    timeout_seconds,\* the socket timeout applied (-1: none yet)
    rpcFn,          \* which RPC function runs: "socket" or "tcp"
    rpcPc,          \* RPC call: position
    sock,           \* the call's socket: "none", "open", "closed"
    srv,            \* what the server does on this connection
    nread,          \* segments of the response received so far
    rx,             \* bytes received so far (response_data)
    rpcResult,      \* what the call returned or raised
    rpcMode,        \* what happened on the wire: "ok", "refused", "timeout", ...
    seen,           \* every (rpcMode, rpcResult) pair calls have ended with
    pollMax,        \* poll_build_status: max_poll_time
    pollPc,         \* poll_build_status: position
    pollStart,      \* poll_build_status: start_time
    pollRet         \* poll_build_status: the value returned ("none" until it returns)

\* State of the programs and functions main() does not call: the graceful
\* quit, the test suite, the launcher.  They stay idle where they do not run.
VARIABLES
    quitPc,         \* quit_qt_creator_gracefully: position
    quitI,          \* quit_qt_creator_gracefully: liveness checks made in the wait loop
    quitRet,        \* quit_qt_creator_gracefully: the value returned ("none" until it returns)
    args,           \* test_suite.py: the parsed command line
    suitePc,        \* test_suite.py main: position
    attempts,       \* iterative_test: attempts
    testResult,     \* the TestResult object: [passed, failed, tests]
    requests,       \* transports of the requests sent after the connectivity check
    slept,          \* iterative_test: time.sleep(delay) calls made
    suiteExit,      \* test_suite.py: process exit code, -1 while it runs
    python,         \* build.py: major version of the interpreter running it (0: not started)
    launchPc,       \* build.py: position
    launchExit      \* build.py: process exit code, -1 while it runs

rcVars ==
    << rcCmd, rcTimeout, rcPc, rcStart, child, pipe, output_lines, rcResult >>
verifyVars == << verifyArgs, verifyRet, response_data, versionRet >>
rpcVars ==
    << schema, fname, command, timeout_seconds, rpcFn, rpcPc, sock, srv, nread,
       rx, rpcResult, rpcMode, seen >>
pollVars == << pollMax, pollPc, pollStart, pollRet >>
quitVars == << quitPc, quitI, quitRet >>
suiteVars == << args, suitePc, attempts, testResult, requests, slept, suiteExit >>
launchVars == << python, launchPc, launchExit >>
toolVars == << quitVars, suiteVars, launchVars >>
libVars == << fn, clock, rcVars, verifyVars, rpcVars, pollVars, toolVars >>

vars ==
    << system, samePath, config, pc, exitCode, endedAt, done, failed, nominal, running,
       lastLive, cmdSinceCheck, elapsed, cycleLog, cycleStartLive,
       killResult, forceIssued, rpcUp, quitSent, cmakeState, cmakePatch,
       headerPatch, reported, cfgEnv, built, inst, copied, handlers, mon, cmake,
       warned, libVars >>

mainVars == << pc, exitCode, endedAt, done, failed >>
killVars ==
    << lastLive, cmdSinceCheck, elapsed, cycleLog, cycleStartLive,
       killResult, forceIssued >>
versionVars == << cmakeState, cmakePatch, headerPatch, reported >>
fileVars == << cfgEnv, built, inst, copied >>
cfgVars == << system, samePath, config >>
monVars == << mon, cmake, warned >>
pipelineVars ==
    << cfgVars, mainVars, nominal, running, killVars, rpcUp, quitSent, versionVars,
       fileVars, handlers, monVars >>

\* ------------------------------------------------------------- file records
BuiltSize == 2                \* byte size of the freshly built plugin binary
BuiltTime == 10               \* modification time of the freshly built plugin binary
Absent == [ex |-> FALSE, size |-> 0, mtime |-> 0]
File(size, mtime) == [ex |-> TRUE, size |-> size, mtime |-> mtime]
NoFiles == [dll |-> Absent, json |-> FALSE]
Dirs == {"cfg", "home"}

\* Directory install_plugin copies into: the configured plugin directory, or
\* (Windows, standard installation) the one under the user's home.
InstallDir == IF samePath THEN "cfg" ELSE "home"

\* ------------------------------------------------------------------ strings
StrTrue == << "T", "r", "u", "e" >>
StrFalse == << "F", "a", "l", "s", "e" >>
StrSuccess == << "S", "U", "C", "C", "E", "S", "S" >>

\* Python's str() of the boolean run_command returns.
str(result) == IF result THEN StrTrue ELSE StrFalse

\* Python's `needle in hay` for strings.
Contains(needle, hay) ==
    \E i \in 1..(Len(hay) - Len(needle) + 1) :
        SubSeq(hay, i, i + Len(needle) - 1) = needle

DigitChars == << "0", "1", "2", "3", "4", "5", "6", "7", "8", "9" >>
IsDigit(c) == \E i \in 1..10 : DigitChars[i] = c
DigitVal(c) == (CHOOSE i \in 1..10 : DigitChars[i] = c) - 1

\* int() of a digit string.
RECURSIVE int(_)
int(digits) ==
    IF digits = << >> THEN 0
    ELSE 10 * int(SubSeq(digits, 1, Len(digits) - 1)) + DigitVal(digits[Len(digits)])

\* int(text) raises ValueError unless text is a digit string with an optional sign.
Numeral(text) ==
    LET body == IF text # << >> /\ text[1] \in {"-", "+"} THEN Tail(text) ELSE text
    IN  body # << >> /\ \A i \in 1..Len(body) : IsDigit(body[i])

\* int(text) of a numeral.
SignedInt(text) ==
    CASE text[1] = "-" -> 0 - int(Tail(text))
      [] text[1] = "+" -> int(Tail(text))
      [] OTHER -> int(text)

\* str(n) of a natural number.
RECURSIVE DecimalText(_)
DecimalText(n) ==
    IF n < 10 THEN << DigitChars[n + 1] >>
    ELSE Append(DecimalText(n \div 10), DigitChars[(n % 10) + 1])

\* str.split('.').
RECURSIVE split(_)
split(text) ==
    LET dots == { i \in 1..Len(text) : text[i] = "." } IN
    IF dots = {} THEN << text >>
    ELSE LET d == CHOOSE i \in dots : \A j \in dots : i <= j
         IN  << SubSeq(text, 1, d - 1) >> \o split(SubSeq(text, d + 1, Len(text)))

\* ------------------------------------------------- functions not yet called
\* timeout=None.
NoTimeout == -1

\* Python's printed form of a boolean return value.
BoolStr(b) == IF b THEN "True" ELSE "False"

NoChild == [state |-> "none", stubborn |-> FALSE, rc |-> 0, left |-> 0]
NoServer == [connect |-> "none", segs |-> << >>, after |-> "none"]
NoResult == [kind |-> "none", data |-> << >>]
NoSchema == [readable |-> FALSE, tools |-> << >>]
NoCommand == [parses |-> FALSE, method |-> "none", name |-> "none"]
NoWarning == [pc |-> "none", cmake |-> "none"]

RcIdle ==
    /\ rcCmd = << >>
    /\ rcTimeout = NoTimeout
    /\ rcPc = "idle"
    /\ rcStart = 0
    /\ child = NoChild
    /\ pipe = << >>
    /\ output_lines = << >>
    /\ rcResult = "none"

VerifyIdle ==
    /\ verifyArgs = [builtExists |-> FALSE, installed |-> Absent]
    /\ verifyRet = "none"
    /\ response_data = [kind |-> "empty", ver |-> << >>]
    /\ versionRet = "none"

RpcIdle ==
    /\ schema = NoSchema
    /\ fname = "none"
    /\ command = NoCommand
    /\ timeout_seconds = -1
    /\ rpcFn = "none"
    /\ rpcPc = "idle"
    /\ sock = "none"
    /\ srv = NoServer
    /\ nread = 0
    /\ rx = << >>
    /\ rpcResult = NoResult
    /\ rpcMode = "none"
    /\ seen = {}

PollIdle ==
    /\ pollMax = 0
    /\ pollPc = "idle"
    /\ pollStart = 0
    /\ pollRet = "none"

NoArgs == [http_only |-> FALSE, tcp_only |-> FALSE, iterative |-> FALSE, max_attempts |-> 0]
QuitIdle == quitPc = "idle" /\ quitI = 0 /\ quitRet = "none"
SuiteIdle ==
    /\ args = NoArgs
    /\ suitePc = "idle"
    /\ attempts = 0
    /\ testResult = [passed |-> 0, failed |-> 0, tests |-> << >>]
    /\ requests = {}
    /\ slept = 0
    /\ suiteExit = -1
\* build.py has not been started.
LaunchIdle == python = 0 /\ launchPc = "idle" /\ launchExit = -1

\* ------------------------------------------------------------ initial state
\* Files a previous run left in a plugin directory.
OldFiles == [dll |-> File(1, 0), json |-> TRUE]

Init ==
    /\ system \in Systems
    /\ samePath \in (IF system = "windows" THEN BOOLEAN ELSE {TRUE})
    /\ config = "none"
    /\ pc = "m_config"
    /\ exitCode = -1
    /\ endedAt = "none"
    /\ done = << >>
    /\ failed = {}
    /\ running \in BOOLEAN
    /\ nominal = ~running
    /\ lastLive = "none"
    /\ cmdSinceCheck = FALSE
    /\ elapsed = 0
    /\ cycleLog = << >>
    /\ cycleStartLive = FALSE
    /\ killResult = "none"
    /\ forceIssued = FALSE
    /\ rpcUp \in BOOLEAN
    /\ quitSent = FALSE
    /\ cmakeState = "ok"
    /\ cmakePatch \in 0..MaxPatch
    /\ headerPatch = cmakePatch
    /\ reported = [kind |-> "none", ver |-> << >>]
    /\ cfgEnv = [probed |-> FALSE, cache |-> FALSE, qt_version |-> FALSE]
    /\ built = [bin |-> FALSE, json |-> FALSE, disc |-> FALSE]
    /\ copied = "none"
    /\ handlers = FALSE
    /\ mon = "none" /\ cmake = "none" /\ warned = NoWarning
    /\ inst \in { [d \in Dirs |-> IF d = "cfg" THEN f ELSE g] :
                    f \in {NoFiles, OldFiles},
                    g \in (IF samePath THEN {NoFiles} ELSE {NoFiles, OldFiles}) }
    /\ fn = "main"
    /\ clock = 0
    /\ RcIdle /\ VerifyIdle /\ RpcIdle /\ PollIdle
    /\ QuitIdle /\ SuiteIdle /\ LaunchIdle

\* ------------------------------------------------------------------ helpers
\* sys.exit(code) in the given stage (an uncaught exception ends in
\* __main__'s handler, which exits 1 as well).
Exit(code, stage, isFailure) ==
    /\ pc' = "exited"
    /\ exitCode' = code
    /\ endedAt' = stage
    /\ failed' = IF isFailure THEN failed \cup {stage} ELSE failed

\* A mis-sequenced main(): the plugin is launched right after it is installed.
MainNextUnverified(at) ==
    CASE at = "m_config" -> "m_check1"
      [] at = "m_check2" -> "m_check3"
      [] at = "m_check3" -> "m_bump"
      [] at = "m_bump" -> "m_regen"
      [] at = "m_regen" -> "m_env"
      [] at = "m_env" -> "m_configure"
      [] at = "m_configure" -> "m_build"
      [] at = "m_build" -> "m_clean"
      [] at = "m_clean" -> "m_install"
      [] at = "m_install" -> "m_launch"
      [] at = "m_verify" -> "m_launch"
      [] at = "m_launch" -> "m_settle"
      [] at = "m_settle" -> "m_test"

\* main, lines 939-1340: the step that follows each step that succeeded.
MainNext(at) ==
    CASE at = "m_config" -> "m_check1"
      [] at = "m_check2" -> "m_check3"
      [] at = "m_check3" -> "m_bump"
      [] at = "m_bump" -> "m_regen"
      [] at = "m_regen" -> "m_env"
      [] at = "m_env" -> "m_configure"
      [] at = "m_configure" -> "m_build"
      [] at = "m_build" -> "m_clean"
      [] at = "m_clean" -> "m_install"
      [] at = "m_install" -> "m_verify"
      [] at = "m_verify" -> "m_launch"
      [] at = "m_launch" -> "m_settle"
      [] at = "m_settle" -> "m_test"

Goto(next) ==
    /\ pc' = next
    /\ UNCHANGED << exitCode, endedAt, failed >>

\* is_process_running: the probe's answer, False when the probe itself fails.
is_process_running(probeOk) == probeOk /\ running

LiveStr(live) == IF live THEN "yes" ELSE "no"

\* A liveness check of the target was made and answered `live`.
Checked(live) ==
    /\ lastLive' = LiveStr(live)
    /\ cmdSinceCheck' = FALSE

\* -------------------------------------------------------- kill_qt_creator
\* A kill_qt_creator that trusts the termination command's exit status.
ReportedSuccessByStatus(result) == result

\* `result and "SUCCESS" in str(result)`: run_command returns a boolean.
ReportedSuccess(result) == result /\ Contains(StrSuccess, str(result))

\* `result and result.returncode == 0`: a boolean has no attribute returncode.
ReturncodeZero(result) == IF result THEN "AttributeError" ELSE "no"

\* The command each method of an attempt cycle issues.
Method1Cmd(sys) == "kill_command"
Method2Cmd(sys) == IF sys = "windows" THEN "kill_tree" ELSE "pkill9"
Method3CmdReordered(sys) == IF sys = "windows" THEN "kill_window" ELSE "pkill9"
Method3Cmd(sys) == IF sys = "windows" THEN "kill_pattern" ELSE "killall9"
Method4Cmd(sys) == "kill_window"

\* kill_qt_creator returns res ("raised": it raises) to main, lines 974-991.
KillReturn(res) ==
    /\ killResult' = res
    /\ IF res = "true" THEN Goto("m_check2") ELSE Exit(1, "Stopping", TRUE)

\* A termination command runs: it takes d seconds and may end the target,
\* whatever exit status it reports.
Terminate(cmd, dies) ==
    /\ cycleLog' = Append(cycleLog, cmd)
    /\ running' = (running /\ ~dies)
    /\ cmdSinceCheck' = TRUE
    /\ forceIssued' = TRUE
    /\ handlers' = TRUE          \* run_command, lines 139-141

\* qt_config.get_qt_config, lines 177-237: RuntimeError unless the binary and
\* the lib directory exist and qtdiag tells the Qt version.
get_qt_config(binExists, libExists, versionFound) ==
    IF binExists /\ libExists /\ versionFound THEN "config" ELSE "RuntimeError"

\* A main() that goes on without a configuration.
ConfigFailedIgnored(r) == FALSE

\* main, lines 948-959: `except RuntimeError` ends the run with sys.exit(1).
ConfigFailed(r) == r = "RuntimeError"

\* main, lines 947-968: the configuration provider and the path check.
GetConfig ==
    /\ pc = "m_config"
    /\ \E binExists \in BOOLEAN, libExists \in BOOLEAN, versionFound \in BOOLEAN,
          pathExists \in BOOLEAN :
        LET r == get_qt_config(binExists, libExists, versionFound) IN
        /\ config' = r
        /\ IF ConfigFailed(r) THEN Exit(1, "ConfigurationError", TRUE)
           ELSE IF ~pathExists THEN Exit(1, "NotStarted", TRUE)
           ELSE Goto(MainNext(pc))
        /\ nominal' = (nominal /\ r = "config" /\ pathExists)
    /\ UNCHANGED << libVars, handlers, monVars, system, samePath, done, running, killVars, rpcUp, quitSent,
                    versionVars, fileVars >>

\* main, lines 970-974: the first liveness check starts the Stopping stage.
CheckRunning ==
    /\ pc = "m_check1"
    /\ \E probeOk \in BOOLEAN :
        LET live == is_process_running(probeOk) IN
        /\ Checked(live)
        /\ Goto(IF live THEN "k_loop" ELSE "m_check3")
        /\ nominal' = (nominal /\ probeOk)
    /\ done' = Append(done, "Stopping")
    /\ elapsed' = 0
    /\ UNCHANGED << libVars, handlers, monVars, cfgVars, running, cycleLog, cycleStartLive, killResult, forceIssued,
                    rpcUp, quitSent, versionVars, fileVars >>

\* kill_qt_creator, lines 692-694 and 756-757: the loop condition.
KillLoop ==
    /\ pc = "k_loop"
    /\ IF elapsed < TimeoutSeconds
         THEN /\ cycleLog' = << >>
              /\ cycleStartLive' = running
              /\ Goto("k_m1")
              /\ UNCHANGED killResult
         ELSE /\ KillReturn("false")
              /\ UNCHANGED << cycleLog, cycleStartLive >>
    /\ UNCHANGED << libVars, handlers, monVars, cfgVars, done, nominal, running, lastLive, cmdSinceCheck, elapsed,
                    forceIssued, rpcUp, quitSent, versionVars, fileVars >>

\* kill_qt_creator, lines 696-701: Method 1, the configured kill command.
KillMethod1 ==
    /\ pc = "k_m1"
    /\ \E result \in BOOLEAN, dies \in BOOLEAN, d \in 0..MaxCmdDur :
        /\ Terminate(Method1Cmd(system), dies)
        /\ IF ReportedSuccess(result)
             THEN /\ KillReturn("true")
                  /\ elapsed' = elapsed + d
             ELSE /\ Goto("k_check1")
                  /\ elapsed' = elapsed + d + MethodSleep
                  /\ UNCHANGED killResult
    /\ UNCHANGED << libVars, monVars, cfgVars, done, nominal, lastLive, cycleStartLive,
                    rpcUp, quitSent, versionVars, fileVars >>

\* A kill_qt_creator that never takes the early return.
KilledAlreadyIgnored(live) == FALSE

\* kill_qt_creator, line 704: `if not is_process_running(...)`.
KilledAlready(live) == ~live

\* kill_qt_creator, lines 703-706: the liveness check after Method 1.
KillCheck1 ==
    /\ pc = "k_check1"
    /\ \E probeOk \in BOOLEAN :
        LET live == is_process_running(probeOk) IN
        /\ Checked(live)
        /\ IF KilledAlready(live) THEN KillReturn("true")
                                   ELSE Goto("k_m2") /\ UNCHANGED killResult
    /\ UNCHANGED << libVars, handlers, monVars, cfgVars, done, nominal, running, elapsed, cycleLog,
                    cycleStartLive, forceIssued, rpcUp, quitSent, versionVars, fileVars >>

\* What follows a termination command of methods 2-4 that returned `result`.
AfterMethod(sys, result, d, next) ==
    LET verdict == IF sys = "windows"
                     THEN (IF ReportedSuccess(result) THEN "yes" ELSE "no")
                     ELSE ReturncodeZero(result)
    IN  CASE verdict = "yes" -> KillReturn("true") /\ elapsed' = elapsed + d
          [] verdict = "AttributeError" -> KillReturn("raised") /\ elapsed' = elapsed + d
          [] OTHER -> /\ Goto(next)
                      /\ elapsed' = elapsed + d + MethodSleep
                      /\ UNCHANGED killResult

\* kill_qt_creator, lines 708-714 (taskkill /T) and 733-737 (pkill -9).
KillMethod2 ==
    /\ pc = "k_m2"
    /\ \E result \in BOOLEAN, dies \in BOOLEAN, d \in 0..MaxCmdDur :
        /\ Terminate(Method2Cmd(system), dies)
        /\ AfterMethod(system, result, d, "k_check3")
    /\ UNCHANGED << libVars, monVars, cfgVars, done, nominal, lastLive, cycleStartLive,
                    rpcUp, quitSent, versionVars, fileVars >>

\* kill_qt_creator, lines 717 and 739: is the target still running?
KillCheck3 ==
    /\ pc = "k_check3"
    /\ \E probeOk \in BOOLEAN :
        LET live == is_process_running(probeOk) IN
        /\ Checked(live)
        /\ Goto(IF live THEN "k_m3"
                ELSE IF system = "windows" THEN "k_check4" ELSE "k_timeout")
    /\ UNCHANGED << libVars, handlers, monVars, cfgVars, done, nominal, running, elapsed, cycleLog,
                    cycleStartLive, killResult, forceIssued, rpcUp, quitSent,
                    versionVars, fileVars >>

\* kill_qt_creator, lines 718-722 (name pattern) and 740-744 (killall -9).
KillMethod3 ==
    /\ pc = "k_m3"
    /\ \E result \in BOOLEAN, dies \in BOOLEAN, d \in 0..MaxCmdDur :
        /\ Terminate(Method3Cmd(system), dies)
        /\ AfterMethod(system, result, d,
                       IF system = "windows" THEN "k_check4" ELSE "k_timeout")
    /\ UNCHANGED << libVars, monVars, cfgVars, done, nominal, lastLive, cycleStartLive,
                    rpcUp, quitSent, versionVars, fileVars >>

\* kill_qt_creator, line 725 (Windows only).
KillCheck4 ==
    /\ pc = "k_check4"
    /\ \E probeOk \in BOOLEAN :
        LET live == is_process_running(probeOk) IN
        /\ Checked(live)
        /\ Goto(IF live THEN "k_m4" ELSE "k_timeout")
    /\ UNCHANGED << libVars, handlers, monVars, cfgVars, done, nominal, running, elapsed, cycleLog,
                    cycleStartLive, killResult, forceIssued, rpcUp, quitSent,
                    versionVars, fileVars >>

\* kill_qt_creator, lines 726-730: Method 4, kill by window title.
KillMethod4 ==
    /\ pc = "k_m4"
    /\ \E result \in BOOLEAN, dies \in BOOLEAN, d \in 0..MaxCmdDur :
        /\ Terminate(Method4Cmd(system), dies)
        /\ AfterMethod(system, result, d, "k_timeout")
    /\ UNCHANGED << libVars, monVars, cfgVars, done, nominal, lastLive, cycleStartLive,
                    rpcUp, quitSent, versionVars, fileVars >>

\* kill_qt_creator, lines 746-754: the budget check that ends a cycle.
KillTimeout ==
    /\ pc = "k_timeout"
    /\ IF elapsed >= TimeoutSeconds
         THEN KillReturn("false") /\ UNCHANGED elapsed
         ELSE /\ Goto("k_loop")
              /\ elapsed' = elapsed + CycleSleep
              /\ UNCHANGED killResult
    /\ UNCHANGED << libVars, handlers, monVars, cfgVars, done, nominal, running, lastLive, cmdSinceCheck,
                    cycleLog, cycleStartLive, forceIssued, rpcUp, quitSent,
                    versionVars, fileVars >>

\* main, lines 993-998: re-check after kill_qt_creator reported success.
VerifyStopped ==
    /\ pc = "m_check2"
    /\ \E probeOk \in BOOLEAN :
        LET live == is_process_running(probeOk) IN
        /\ Checked(live)
        /\ IF live THEN Exit(1, "Stopping", TRUE) ELSE Goto(MainNext(pc))
    \* the locals of kill_qt_creator are gone
    /\ elapsed' = 0
    /\ cycleLog' = << >>
    /\ cycleStartLive' = FALSE
    /\ UNCHANGED << libVars, handlers, monVars, cfgVars, done, nominal, running, killResult, forceIssued,
                    rpcUp, quitSent, versionVars, fileVars >>

\* A main() that proceeds whatever the final liveness check says.
ProceedAlways(live) == TRUE

\* main, lines 1000-1007: proceed only if the target is not running.
ProceedToBuild(live) == ~live

FinalCheck ==
    /\ pc = "m_check3"
    /\ \E probeOk \in BOOLEAN :
        LET live == is_process_running(probeOk) IN
        /\ Checked(live)
        /\ IF ProceedToBuild(live) THEN Goto(MainNext(pc)) ELSE Exit(1, "Stopping", TRUE)
        /\ nominal' = (nominal /\ probeOk)
    /\ UNCHANGED << libVars, handlers, monVars, cfgVars, done, running, elapsed, cycleLog,
                    cycleStartLive, killResult, forceIssued, rpcUp, quitSent,
                    versionVars, fileVars >>

\* ------------------------------------------------------------ run_command
\* What an external command does: it cannot be started ("exception"), it is
\* still running at the timeout ("timeout"), or it exits with rc after
\* printing its output (zeroMarker: a line contains "0 File(s) copied").
CmdOutcomes == [fault : {"none", "timeout", "exception"}, rc : {0, 1}, zeroMarker : BOOLEAN]
CopyOutcomes == [fault : {"none"}, rc : {0, 1}, zeroMarker : BOOLEAN]

\* A run_command without the zero-copy check.
run_command_by_exit_code(cmdHasXcopy, o) == o.fault = "none" /\ o.rc = 0

\* run_command, lines 143-221: the boolean it returns.
run_command(cmdHasXcopy, o) ==
    IF o.fault # "none" THEN FALSE
    ELSE IF o.rc # 0 THEN FALSE
    ELSE IF cmdHasXcopy /\ o.zeroMarker THEN FALSE
    ELSE TRUE

\* --------------------------------------------------------------- VersionBump
CmakeStates == {"ok", "unreadable", "nopatch", "readonly", "nofields"}

\* bump_version, lines 443-475: the new patch number and whether it printed
\* an error; it returns nothing.
bump_version(st, patch) ==
    IF st \in {"ok", "nofields"}
      THEN [patch |-> patch + 1, error |-> FALSE]
      ELSE [patch |-> patch, error |-> TRUE]

\* regenerate_version_files, lines 477-525.
regenerate_version_files(st, headerWritable) ==
    st \in {"ok", "readonly"} /\ headerWritable

\* main, lines 1014-1016: bump_version() is called and its outcome ignored.
BumpVersion ==
    /\ pc = "m_bump"
    /\ \E st \in CmakeStates :
        LET r == bump_version(st, cmakePatch) IN
        /\ cmakeState' = st
        /\ cmakePatch' = r.patch
        /\ failed' = IF r.error THEN failed \cup {"VersionBump"} ELSE failed
        /\ nominal' = (nominal /\ st = "ok")
    /\ pc' = MainNext(pc)
    /\ done' = Append(done, "VersionBump")
    /\ UNCHANGED << libVars, handlers, monVars, cfgVars, exitCode, endedAt, running, killVars, rpcUp, quitSent,
                    headerPatch, reported, fileVars >>

\* main, lines 1018-1022.
RegenerateVersionFiles ==
    /\ pc = "m_regen"
    /\ \E headerWritable \in BOOLEAN :
        IF regenerate_version_files(cmakeState, headerWritable)
          THEN /\ headerPatch' = cmakePatch
               /\ Goto(MainNext(pc))
               /\ nominal' = nominal
          ELSE /\ Exit(1, "VersionBump", TRUE)
               /\ nominal' = FALSE
               /\ UNCHANGED headerPatch
    /\ UNCHANGED << libVars, handlers, monVars, cfgVars, done, running, killVars, rpcUp, quitSent, cmakeState,
                    cmakePatch, reported, fileVars >>

\* ---------------------------------------------------- Configuring, Building
\* main, lines 1024-1052: Visual Studio and CMake must be found on Windows.
SetupEnvironment ==
    /\ pc = "m_env"
    /\ \E vsFound \in BOOLEAN, cmakeFound \in BOOLEAN :
        LET ok == system # "windows" \/ (vsFound /\ cmakeFound) IN
        /\ IF ok THEN Goto(MainNext(pc)) ELSE Exit(1, "Configuring", TRUE)
        /\ nominal' = (nominal /\ ok)
    /\ UNCHANGED << libVars, handlers, monVars, cfgVars, done, running, killVars, rpcUp, quitSent, versionVars, fileVars >>

\* A main() that configures whether or not the build directory is configured.
NeedsConfigureAlways(cacheExists) == TRUE

\* main, line 1058: `if not os.path.exists(f"{build_dir}/CMakeCache.txt")`.
NeedsConfigure(cacheExists) == ~cacheExists

\* main, lines 1054-1133: configure unless CMakeCache.txt exists.
Configure ==
    /\ pc = "m_configure"
    /\ \E cacheExists \in BOOLEAN, qtVersionFound \in BOOLEAN, o \in CmdOutcomes :
        LET needed == NeedsConfigure(cacheExists)
            discovered == needed /\ system = "windows" /\ qtVersionFound
        IN  /\ cfgEnv' = [probed |-> TRUE, cache |-> cacheExists, qt_version |-> discovered]
            /\ IF ~needed
                 THEN /\ Goto(MainNext(pc))
                      /\ UNCHANGED << done, nominal, handlers >>
                 ELSE IF system = "windows" /\ ~qtVersionFound
                 THEN /\ Exit(1, "Configuring", TRUE)
                      /\ nominal' = FALSE
                      /\ UNCHANGED << done, handlers >>
                 ELSE /\ done' = Append(done, "Configuring")
                      /\ handlers' = TRUE
                      /\ nominal' = (nominal /\ run_command(FALSE, o))
                      /\ IF run_command(FALSE, o) THEN Goto(MainNext(pc))
                                                   ELSE Exit(1, "Configuring", TRUE)
    /\ UNCHANGED << libVars, monVars, cfgVars, running, killVars, rpcUp, quitSent, versionVars,
                    built, inst, copied >>

\* main, lines 1135-1191: the build command is started; on Windows the
\* monitor thread is started first (lines 1174-1178).  The shell takes a
\* moment to start cmake.exe.
StartBuild ==
    /\ pc = "m_build"
    /\ done' = Append(done, "Building")
    /\ pc' = "m_building"
    /\ mon' = IF system = "windows" THEN "check" ELSE mon
    /\ handlers' = TRUE
    /\ UNCHANGED << libVars, cmake, warned, cfgVars, exitCode, endedAt, failed, nominal,
                    running, killVars, rpcUp, quitSent, versionVars, fileVars >>

\* A main() that joins the monitor thread before it goes on.
MonitorJoinedBeforeReturn(m) == m \in {"check", "sleep"}

\* main, lines 1175-1182: the monitor is a daemon thread that main() never
\* joins and whose return value nobody reads.
MonitorJoined(m) == FALSE

\* main, lines 1135-1210: the build command returns; the artifacts it
\* leaves behind.  It cannot report success unless cmake.exe ran and ended,
\* and it returns while cmake.exe runs only at its timeout.
Build ==
    /\ pc = "m_building"
    /\ ~MonitorJoined(mon)
    /\ \E o \in CmdOutcomes, b \in [bin : BOOLEAN, json : BOOLEAN, disc : BOOLEAN] :
        /\ system = "windows" =>
              CASE cmake = "none" -> o.fault = "exception" \/ o.rc # 0
                [] cmake = "running" -> o.fault = "timeout"
                [] OTHER -> o.fault # "exception"
        /\ IF run_command(FALSE, o)
             THEN /\ built' = b
                  /\ Goto(MainNext("m_build"))
                  /\ nominal' = (nominal /\ b.bin /\ b.json /\ b.disc)
             ELSE /\ Exit(1, "Building", TRUE)
                  /\ nominal' = FALSE
                  /\ UNCHANGED built
    /\ UNCHANGED << libVars, handlers, monVars, cfgVars, done, running, killVars, rpcUp, quitSent, versionVars, cfgEnv, inst, copied >>

\* The build process: cmake.exe starts after the build command was started,
\* and ends.
BuildProcess ==
    /\ system = "windows"
    /\ \/ pc = "m_building" /\ cmake = "none" /\ cmake' = "running"
       \/ cmake = "running" /\ cmake' = "gone"
    /\ UNCHANGED << libVars, handlers, mon, warned, cfgVars, mainVars, nominal, running,
                    killVars, rpcUp, quitSent, versionVars, fileVars >>

\* monitor_build_process, lines 237-265, in its daemon thread, which ends
\* with the process.  An iteration ends the loop at max_monitor_time, or
\* finds no cmake.exe (is_process_running answers False also when its probe
\* fails), prints the warning and returns False, or goes to sleep; a print
\* that raises ends the thread.
monitor_build_process ==
    /\ pc # "exited"
    /\ \/ /\ mon = "check"
          /\ \E expired \in BOOLEAN, probeOk \in BOOLEAN, printOk \in BOOLEAN :
               IF expired
                 THEN mon' = "returned" /\ UNCHANGED warned
               ELSE IF ~(probeOk /\ cmake = "running")
                 THEN IF printOk
                        THEN /\ warned' = [pc |-> pc, cmake |-> cmake]
                             /\ mon' = "returned"
                        ELSE mon' = "crashed" /\ UNCHANGED warned
               ELSE mon' = "sleep" /\ UNCHANGED warned
       \/ /\ mon = "sleep"
          /\ mon' = "check"
          /\ UNCHANGED warned
    /\ UNCHANGED << libVars, handlers, cmake, cfgVars, mainVars, nominal, running,
                    killVars, rpcUp, quitSent, versionVars, fileVars >>

\* ------------------------------------------------------------------ signals
\* A SIGINT or SIGTERM is delivered to the orchestrating process.  Once
\* run_command has installed signal_handler (lines 139-141) the signal is
\* logged and the run goes on; before that SIGINT raises KeyboardInterrupt,
\* which ends the run in __main__ (lines 1348-1350), and SIGTERM ends the
\* process.
Signal ==
    /\ pc \notin {"exited", "idle"}
    /\ \E signum \in {"SIGINT", "SIGTERM"} :
        IF handlers
          THEN UNCHANGED << mainVars, nominal >>
          ELSE /\ IF signum = "SIGINT" THEN Exit(1, "Interrupted", FALSE)
                                        ELSE Exit(128 + 15, "Killed", FALSE)
               /\ nominal' = FALSE
               /\ UNCHANGED done
    /\ UNCHANGED << libVars, handlers, monVars, cfgVars, running, killVars, rpcUp,
                    quitSent, versionVars, fileVars >>

\* --------------------------------------------------------- CleaningArtifacts
\* What an attempt to delete one file does.
DelOutcomes(sys) ==
    IF sys = "windows" THEN {"deleted", "raises", "remains"} ELSE {"deleted", "raises"}

\* clean_old_plugins, lines 375-441: the files left and the value returned.
clean_old_plugins(sys, files, delDll, delJson) ==
    LET dllGone == ~files.dll.ex \/ delDll = "deleted"
        afterDll == [files EXCEPT !.dll = IF dllGone THEN Absent ELSE @]
        jsonGone == ~files.json \/ delJson = "deleted"
        afterJson == [afterDll EXCEPT !.json = ~jsonGone]
    IN  IF ~dllGone THEN [ok |-> FALSE, files |-> afterDll]
        ELSE IF ~jsonGone THEN [ok |-> FALSE, files |-> afterJson]
        ELSE [ok |-> TRUE, files |-> afterJson]

\* main, lines 1212-1230.
CleanOldPlugins ==
    /\ pc = "m_clean"
    /\ done' = Append(done, "CleaningArtifacts")
    /\ \E delDll \in DelOutcomes(system), delJson \in DelOutcomes(system) :
        LET r == clean_old_plugins(system, inst["cfg"], delDll, delJson) IN
        /\ inst' = [inst EXCEPT !["cfg"] = r.files]
        /\ nominal' = (nominal /\ delDll = "deleted" /\ delJson = "deleted")
        /\ IF r.ok THEN Goto(MainNext(pc)) ELSE Exit(1, "CleaningArtifacts", TRUE)
    /\ UNCHANGED << libVars, handlers, monVars, cfgVars, running, killVars, rpcUp, quitSent, versionVars, cfgEnv, built, copied >>

\* ---------------------------------------------------------------- Installing
CopyEffects == {"intact", "truncated", "none"}

\* The plugin binary in the install directory after the copy command ran.
Copied(old, effect) ==
    CASE effect = "intact" -> File(BuiltSize, BuiltTime)
      [] effect = "truncated" -> File(0, BuiltTime)
      [] OTHER -> old

\* install_plugin, lines 803-937: the value it returns ("none": it falls off
\* the end of the function without a return statement).
install_plugin(sys, b, okBin, okJson, okDisc) ==
    IF sys = "windows"
      THEN IF (b.bin /\ okBin) /\ (b.json /\ okJson) /\ (b.disc /\ okDisc)
             THEN "true" ELSE "false"
      ELSE "none"

\* Python truth value of what install_plugin returned.
Truthy(v) == v = "true"

\* main, lines 1232-1250.
InstallPlugin ==
    /\ pc = "m_install"
    /\ done' = Append(done, "Installing")
    /\ \E prepared \in BOOLEAN, effect \in CopyEffects,
          oBin \in CopyOutcomes, oJson \in CopyOutcomes, oDisc \in CopyOutcomes :
        LET isX == system = "windows"
            okBin == run_command(isX, oBin)
            okJson == run_command(isX, oJson)
            okDisc == run_command(isX, oDisc)
            dir == InstallDir
            ret == install_plugin(system, built, okBin, okJson, okDisc)
        IN  IF ~prepared
              \* os.makedirs raises, or get_windeployqt_path fails (sys.exit(1))
              THEN /\ Exit(1, "Installing", TRUE)
                   /\ nominal' = FALSE
                   /\ UNCHANGED << inst, copied >>
              ELSE /\ inst' = [inst EXCEPT
                                 ![dir].dll = IF built.bin THEN Copied(@, effect) ELSE @,
                                 ![dir].json = @ \/ (built.json /\ okJson)]
                   /\ copied' = IF (built.bin /\ okBin) /\ (built.json /\ okJson)
                                     /\ (built.disc /\ okDisc)
                                  THEN "ok" ELSE "failed"
                   /\ nominal' = (nominal /\ okBin /\ okJson /\ okDisc /\ effect = "intact")
                   /\ IF Truthy(ret) THEN Goto(MainNext(pc))
                                     ELSE Exit(1, "Installing", TRUE)
    /\ UNCHANGED << libVars, handlers, monVars, cfgVars, running, killVars, rpcUp, quitSent, versionVars, cfgEnv, built >>

\* ----------------------------------------------------------- VerifyingInstall
\* verify_plugin_installation, lines 327-373.
verify_plugin_installation(sys, builtExists, installed) ==
    IF sys = "windows"
      THEN /\ builtExists
           /\ installed.ex
           /\ ~(installed.mtime < BuiltTime - Tolerance)
           /\ BuiltSize = installed.size
      ELSE TRUE

\* main, lines 1251-1271.
VerifyInstall ==
    /\ pc = "m_verify"
    /\ done' = Append(done, "VerifyingInstall")
    /\ LET ok == verify_plugin_installation(system, built.bin, inst["cfg"].dll) IN
        /\ IF ok THEN Goto(MainNext(pc)) ELSE Exit(1, "VerifyingInstall", TRUE)
        /\ nominal' = nominal
    /\ UNCHANGED << libVars, handlers, monVars, cfgVars, running, killVars, rpcUp, quitSent, versionVars, fileVars >>

\* ------------------------------------------- Launching, VerifyingFunctional
\* launch_qt_creator, lines 759-776: subprocess.DETACHED_PROCESS exists on
\* Windows only, so the Linux branch raises AttributeError, which is caught.
launch_qt_creator(sys, spawned) == sys # "linux" /\ spawned

\* main, lines 1273-1278.
Launch ==
    /\ pc = "m_launch"
    /\ done' = Append(done, "Launching")
    /\ \E spawned \in BOOLEAN :
        LET ok == launch_qt_creator(system, spawned) IN
        /\ running' = (running \/ ok)
        /\ nominal' = (nominal /\ spawned)
        /\ IF ok THEN Goto(MainNext(pc)) ELSE Exit(1, "Launching", TRUE)
    /\ UNCHANGED << libVars, handlers, monVars, cfgVars, killVars, rpcUp, quitSent, versionVars, fileVars >>

\* main, lines 1280-1282: time.sleep(15) while the target loads its plugins.
Settle ==
    /\ pc = "m_settle"
    /\ done' = Append(done, "Settle")
    /\ \E up \in BOOLEAN :
        /\ rpcUp' = up
        /\ nominal' = (nominal /\ up)
    /\ Goto(MainNext(pc))
    /\ UNCHANGED << libVars, handlers, monVars, cfgVars, running, killVars, quitSent, versionVars, fileVars >>

\* The version text "1.31.<patch>" for a patch text.
VersionText(patch) == << "1", ".", "3", "1", "." >> \o patch

\* What the server answers to "initialize": nothing, no JSON, JSON without a
\* (non-empty) result, or a result whose serverInfo.version is the text ver.
ReportedVersions ==
    { VersionText(DecimalText(p)) : p \in 0..(MaxPatch + 3) }
    \cup { << "1", ".", "3", "1" >>, VersionText(<< "a" >>) }
Responses ==
    { [kind |-> k, ver |-> << >>] : k \in {"empty", "badjson", "noresult"} }
    \cup { [kind |-> "version", ver |-> v] : v \in ReportedVersions }

\* A test_mcp_version that accepts every version of three parts.
test_mcp_version_any_patch(resp) ==
    resp.kind = "version" /\ Len(split(resp.ver)) >= 3

\* test_mcp_version, lines 280-325.
test_mcp_version(resp) ==
    /\ resp.kind = "version"
    /\ LET version_parts == split(resp.ver) IN
        /\ Len(version_parts) >= 3
        /\ Numeral(version_parts[3])
        /\ SignedInt(version_parts[3]) >= MinPatch

\* test_installation, lines 778-801: two connection attempts, then the version.
test_installation(conn1, conn2, resp) ==
    (conn1 \/ conn2) /\ test_mcp_version(resp)

\* main, lines 1284-1340.
TestInstallation ==
    /\ pc = "m_test"
    /\ done' = Append(done, "VerifyingFunctional")
    /\ \E conn2 \in (IF rpcUp THEN {TRUE} ELSE BOOLEAN), resp \in Responses :
        /\ IF test_installation(rpcUp, conn2, resp)
             THEN Exit(0, "Succeeded", FALSE)
             ELSE Exit(1, "VerifyingFunctional", TRUE)
        /\ nominal' = (nominal /\ resp = [kind |-> "version", ver |-> VersionText(DecimalText(cmakePatch))])
        /\ reported' = IF rpcUp \/ conn2 THEN resp ELSE reported
    /\ UNCHANGED << libVars, handlers, monVars, cfgVars, running, killVars, rpcUp, quitSent, cmakeState,
                    cmakePatch, headerPatch, fileVars >>

\* ------------------------------------------------------------- environment
\* The target process ends on its own (or late, after a termination command).
TargetExits ==
    /\ pc \notin {"exited", "m_settle", "m_test"}
    /\ running
    /\ running' = FALSE
    /\ UNCHANGED << libVars, handlers, monVars, cfgVars, mainVars, nominal, killVars, rpcUp, quitSent, versionVars, fileVars >>

\* Somebody starts the target while the pipeline runs.
TargetStarts ==
    /\ pc \notin {"exited", "m_config", "m_settle", "m_test"}
    /\ ~running
    /\ running' = TRUE
    /\ nominal' = FALSE
    /\ UNCHANGED << libVars, handlers, monVars, cfgVars, mainVars, killVars, rpcUp, quitSent, versionVars, fileVars >>

Next ==
    \/ GetConfig
    \/ CheckRunning
    \/ KillLoop
    \/ KillMethod1
    \/ KillCheck1
    \/ KillMethod2
    \/ KillCheck3
    \/ KillMethod3
    \/ KillCheck4
    \/ KillMethod4
    \/ KillTimeout
    \/ VerifyStopped
    \/ FinalCheck
    \/ BumpVersion
    \/ RegenerateVersionFiles
    \/ SetupEnvironment
    \/ Configure
    \/ StartBuild
    \/ Build
    \/ BuildProcess
    \/ Signal
    \/ CleanOldPlugins
    \/ InstallPlugin
    \/ VerifyInstall
    \/ Launch
    \/ Settle
    \/ TestInstallation
    \/ TargetExits
    \/ TargetStarts

\* The pipeline as its main thread runs it: the monitor thread, which shares
\* no state with the main thread, takes its steps in MonitorSpec.
Spec == Init /\ [][Next]_vars

\* ---------------------------------------------- the build and its monitor
\* The pipeline on Windows as it arrives at the Building stage.
MonitorInit ==
    /\ system = "windows"
    /\ samePath = TRUE
    /\ config = "config"
    /\ pc = "m_build"
    /\ exitCode = -1
    /\ endedAt = "none"
    /\ done \in { << "Stopping", "VersionBump" >>, << "Stopping", "VersionBump", "Configuring" >> }
    /\ failed = {}
    /\ running = FALSE
    /\ nominal = TRUE
    /\ lastLive = "no"
    /\ cmdSinceCheck = FALSE
    /\ elapsed = 0
    /\ cycleLog = << >>
    /\ cycleStartLive = FALSE
    /\ killResult = "none"
    /\ forceIssued = FALSE
    /\ rpcUp = FALSE
    /\ quitSent = FALSE
    /\ cmakeState = "ok"
    /\ cmakePatch = 1
    /\ headerPatch = 1
    /\ reported = [kind |-> "none", ver |-> << >>]
    /\ cfgEnv = [probed |-> TRUE, cache |-> Len(done) = 2, qt_version |-> Len(done) = 3]
    /\ built = [bin |-> FALSE, json |-> FALSE, disc |-> FALSE]
    /\ copied = "none"
    /\ inst = [d \in Dirs |-> IF d = "cfg" THEN OldFiles ELSE NoFiles]
    /\ handlers = (Len(done) = 3)
    /\ mon = "none" /\ cmake = "none" /\ warned = NoWarning
    /\ fn = "main"
    /\ clock = 0
    /\ RcIdle /\ VerifyIdle /\ RpcIdle /\ PollIdle
    /\ QuitIdle /\ SuiteIdle /\ LaunchIdle

\* The steps of the main thread from Building on.
MainStep ==
    \/ StartBuild
    \/ Build
    \/ CleanOldPlugins
    \/ InstallPlugin
    \/ VerifyInstall
    \/ Launch
    \/ Settle
    \/ TestInstallation

MonitorNext ==
    \/ MainStep
    \/ BuildProcess
    \/ monitor_build_process

\* The main thread from the Building stage on, the build process and the
\* monitor thread, in every interleaving.
MonitorSpec == MonitorInit /\ [][MonitorNext]_vars

\* ===================================================== functions, call by call
\* ------------------------------------------------- run_command, step by step
MaxCmdTimeout == 1            \* largest timeout argument tried
MaxLines == 2                 \* most lines a child writes
MaxClock == 3                 \* the clock stops here
DefaultCmdTimeout == 3600     \* timeout = 3600 when the argument is None

\* Command texts (cmd given as one string).
CmdTexts ==
    { << "x", "c", "o", "p", "y", " ", "f" >>,
      << "X", "C", "O", "P", "Y", " ", "f" >>,
      << "c", "p", " ", "f" >>,
      << "c", "p", " ", "x", "c", "o", "p", "y" >> }

StrXcopy == << "x", "c", "o", "p", "y" >>

\* str.lower(), on the letters that occur.
LowerChar(c) ==
    CASE c = "X" -> "x"
      [] c = "C" -> "c"
      [] c = "O" -> "o"
      [] c = "P" -> "p"
      [] c = "Y" -> "y"
      [] OTHER -> c
lower(text) == [i \in DOMAIN text |-> LowerChar(text[i])]

\* run_command, line 200: `cmd and 'xcopy' in str(cmd).lower()`.
HasXcopy(cmd) == cmd # << >> /\ Contains(StrXcopy, lower(cmd))

\* Output lines: "<n> File(s) copied" for n = 0, 1, 10.
FilesCopied == " File(s) copied"
ZeroMarker == << "0", FilesCopied >>
OutputLines ==
    { << "0", FilesCopied >>, << "1", FilesCopied >>, << "1", "0", FilesCopied >> }

\* run_command, lines 201-202: some line contains "0 File(s) copied".
HasZeroMarker(lines) == \E i \in 1..Len(lines) : Contains(ZeroMarker, lines[i])

\* run_command, lines 145-147.
EffectiveTimeout(t) == IF t = NoTimeout THEN DefaultCmdTimeout ELSE t

RcInit ==
    /\ rcCmd \in CmdTexts
    /\ rcTimeout \in {NoTimeout} \cup 1..MaxCmdTimeout
    /\ rcPc = "r_popen"
    /\ rcStart = 0
    /\ child = NoChild
    /\ pipe = << >>
    /\ output_lines = << >>
    /\ rcResult = "none"

\* The child is running and run_command waits in a call only the child ends:
\* readline() with nothing to read, or wait() after terminate().
RcBlocked ==
    /\ child.state = "running"
    /\ \/ rcPc = "r_readline" /\ pipe = << >>
       \/ rcPc = "r_wait"

\* run_command returns the boolean b.
RcReturn(b) ==
    /\ rcResult' = BoolStr(b)
    /\ rcPc' = "returned"

\* run_command, lines 150-155: subprocess.Popen starts the child, or raises.
RcPopen ==
    /\ rcPc = "r_popen"
    /\ \E started \in BOOLEAN, stubborn \in BOOLEAN :
        IF started
          THEN /\ child' = [state |-> "running", stubborn |-> stubborn, rc |-> 0,
                            left |-> MaxLines]
               /\ rcStart' = clock
               /\ rcPc' = "r_poll"
               /\ UNCHANGED rcResult
          ELSE /\ RcReturn(run_command(HasXcopy(rcCmd),
                                       [fault |-> "exception", rc |-> 0, zeroMarker |-> FALSE]))
               /\ UNCHANGED << child, rcStart >>
    /\ UNCHANGED << fn, clock, rcCmd, rcTimeout, pipe, output_lines,
                    verifyVars, rpcVars, pollVars >>
    /\ UNCHANGED << pipelineVars, toolVars >>

\* process.terminate(): SIGTERM, which a child may ignore; TerminateProcess
\* on Windows, which it cannot.
Terminated(c, sys) ==
    IF c.stubborn /\ sys # "windows" THEN c
    ELSE [c EXCEPT !.state = "exited", !.rc = 1]

\* run_command, lines 157-164: the loop condition and the timeout check.
RcPoll ==
    /\ rcPc = "r_poll"
    /\ IF child.state = "exited"
         THEN rcPc' = "r_drain" /\ UNCHANGED child
         ELSE IF clock - rcStart > EffectiveTimeout(rcTimeout)
         THEN rcPc' = "r_wait" /\ child' = Terminated(child, system)
         ELSE rcPc' = "r_readline" /\ UNCHANGED child
    /\ UNCHANGED << fn, clock, rcCmd, rcTimeout, rcStart, pipe, output_lines, rcResult,
                    verifyVars, rpcVars, pollVars >>
    /\ UNCHANGED << pipelineVars, toolVars >>

\* run_command, lines 172-181: process.stdout.readline() returns the next
\* line, or '' at end of file; until then it does not return.
RcReadline ==
    /\ rcPc = "r_readline"
    /\ \/ /\ pipe # << >>
          /\ output_lines' = Append(output_lines, Head(pipe))
          /\ pipe' = Tail(pipe)
       \/ /\ pipe = << >>
          /\ child.state = "exited"
          /\ UNCHANGED << output_lines, pipe >>
    /\ rcPc' = "r_poll"
    /\ UNCHANGED << fn, clock, rcCmd, rcTimeout, rcStart, child, rcResult,
                    verifyVars, rpcVars, pollVars >>
    /\ UNCHANGED << pipelineVars, toolVars >>

\* run_command, lines 161-164: process.wait() returns once the child is gone.
RcWait ==
    /\ rcPc = "r_wait"
    /\ child.state = "exited"
    /\ RcReturn(run_command(HasXcopy(rcCmd),
                            [fault |-> "timeout", rc |-> child.rc, zeroMarker |-> FALSE]))
    /\ UNCHANGED << fn, clock, rcCmd, rcTimeout, rcStart, child, pipe, output_lines,
                    verifyVars, rpcVars, pollVars >>
    /\ UNCHANGED << pipelineVars, toolVars >>

\* run_command, lines 183-208: the rest of the output, the exit code, the
\* zero-copy check.
RcFinish ==
    /\ rcPc = "r_drain"
    /\ output_lines' = output_lines \o pipe
    /\ pipe' = << >>
    /\ RcReturn(run_command(HasXcopy(rcCmd),
                            [fault |-> "none", rc |-> child.rc,
                             zeroMarker |-> HasZeroMarker(output_lines \o pipe)]))
    /\ UNCHANGED << fn, clock, rcCmd, rcTimeout, rcStart, child,
                    verifyVars, rpcVars, pollVars >>
    /\ UNCHANGED << pipelineVars, toolVars >>

\* The child writes a line to its output.
ChildWrites ==
    /\ rcPc \in {"r_poll", "r_readline"}
    /\ child.state = "running"
    /\ child.left > 0
    /\ \E line \in OutputLines : pipe' = Append(pipe, line)
    /\ child' = [child EXCEPT !.left = @ - 1]
    /\ UNCHANGED << fn, clock, rcCmd, rcTimeout, rcPc, rcStart, output_lines, rcResult,
                    verifyVars, rpcVars, pollVars >>
    /\ UNCHANGED << pipelineVars, toolVars >>

\* The child exits by itself, or late after a termination request it ignored
\* at first.
ChildExits ==
    /\ rcPc \in {"r_poll", "r_readline", "r_wait"}
    /\ child.state = "running"
    /\ \E rc \in {0, 1} : child' = [child EXCEPT !.state = "exited", !.rc = rc]
    /\ UNCHANGED << fn, clock, rcCmd, rcTimeout, rcPc, rcStart, pipe, output_lines,
                    rcResult, verifyVars, rpcVars, pollVars >>
    /\ UNCHANGED << pipelineVars, toolVars >>

\* Time passes while run_command waits for the child.
Tick ==
    /\ RcBlocked
    /\ clock < MaxClock
    /\ clock' = clock + 1
    /\ UNCHANGED << fn, rcVars, verifyVars, rpcVars, pollVars >>
    /\ UNCHANGED << pipelineVars, toolVars >>

\* ------------------------------------------- verify_plugin_installation
\* The installed file verify_plugin_installation may find.
InstalledFiles ==
    {Absent} \cup
    { File(sz, t) : sz \in {0, BuiltSize, BuiltSize + 1},
                    t \in {BuiltTime - Tolerance - 1, BuiltTime - Tolerance,
                           BuiltTime, BuiltTime + 1} }

VerifyInit ==
    /\ verifyArgs \in [builtExists : BOOLEAN, installed : InstalledFiles]
    /\ verifyRet = "none"
    /\ response_data = [kind |-> "empty", ver |-> << >>]
    /\ versionRet = "none"

\* verify_plugin_installation(config) is called.
VerifyCall ==
    /\ fn = "verify"
    /\ verifyRet = "none"
    /\ verifyRet' = BoolStr(verify_plugin_installation(system, verifyArgs.builtExists,
                                                       verifyArgs.installed))
    /\ UNCHANGED << fn, clock, rcVars, verifyArgs, response_data, versionRet, rpcVars, pollVars >>
    /\ UNCHANGED << pipelineVars, toolVars >>

\* ------------------------------------------------------- test_mcp_version
\* Answers to "initialize" as test_mcp_version may get them: patches that
\* are numerals, signed numerals and texts int() rejects; versions of one,
\* two and four parts; "unknown" (no serverInfo.version).
InitializeResponses ==
    LET PatchTexts ==
            { DecimalText(p) : p \in 0..(MaxPatch + 3) }
            \cup { << "1", "0" >>, << "2", "0" >>, << "0", "1" >>, << "0", "0" >>,
                    << "+", "1" >>, << "-", "1" >>, << >>, << "a" >>, << "1", "a" >>, << "-" >> }
    IN  Responses
        \cup { [kind |-> "version", ver |-> VersionText(t)] : t \in PatchTexts }
        \cup { [kind |-> "version", ver |-> VersionText(t) \o << ".", "0" >>] : t \in PatchTexts }
        \cup { [kind |-> "version", ver |-> v] :
                v \in { << "unknown" >>, << "1" >>, << >>, << "a", ".", "b", ".", "3" >> } }

\* test_mcp_version(config) is called.
TestMcpVersionCall ==
    /\ fn = "test_mcp_version"
    /\ versionRet = "none"
    /\ versionRet' = BoolStr(test_mcp_version(response_data))
    /\ UNCHANGED << fn, clock, rcVars, verifyArgs, verifyRet, response_data, rpcVars, pollVars >>
    /\ UNCHANGED << pipelineVars, toolVars >>

\* ------------------------------------------------------ RPC timeout policy
MaxTools == 1                 \* most tools listed in mcp.json
TcpTimeout == 5               \* send_tcp_request(request_data, timeout=5)

FunctionNames ==
    { "initialize", "quit", "get_plugin_version", "build", "debug", "loadSession",
      "getBuildStatus", "unknown" }
TimeoutStrings == {"default", "1 minute", "2 minutes", "20 minutes", "30 seconds"}

\* The tools mcp.json may list, each with its name and timeout string
\* ("default" also when the tool has no timeout member).
SchemaTools == [name : {"quit", "build", "getBuildStatus"}, timeout : TimeoutStrings]
RECURSIVE SeqsUpTo(_, _)
SeqsUpTo(S, n) ==
    IF n = 0 THEN { << >> }
    ELSE SeqsUpTo(S, n - 1) \cup
         { Append(q, x) : q \in { r \in SeqsUpTo(S, n - 1) : Len(r) = n - 1 }, x \in S }
Schemas ==
    { NoSchema } \cup { [readable |-> TRUE, tools |-> t] : t \in SeqsUpTo(SchemaTools, MaxTools) }

\* get_mcp_timeout_for_function, lines 537-547: the schema's timeout strings.
SchemaTimeout(timeout_str) ==
    CASE timeout_str = "default" -> 5
      [] timeout_str = "1 minute" -> 60
      [] timeout_str = "2 minutes" -> 120
      [] timeout_str = "20 minutes" -> 1200
      [] OTHER -> 5

\* A fallback table that has lost its 1-second entries.
timeout_map_without_fast(function_name) ==
    CASE function_name = "build" -> 1200
      [] function_name = "debug" -> 60
      [] function_name = "loadSession" -> 120
      [] OTHER -> 5

\* get_mcp_timeout_for_function, lines 551-561: timeout_map.get(name, 5).
timeout_map(function_name) ==
    CASE function_name = "build" -> 1200
      [] function_name = "debug" -> 60
      [] function_name = "loadSession" -> 120
      [] function_name = "get_plugin_version" -> 1
      [] function_name = "initialize" -> 1
      [] function_name = "quit" -> 1
      [] OTHER -> 5

\* The schema lists a tool of that name.
Listed(sch, function_name) ==
    sch.readable /\ \E i \in 1..Len(sch.tools) : sch.tools[i].name = function_name

\* A lookup that asks the hardcoded table first and mcp.json only for the
\* names the table does not hold.
get_mcp_timeout_table_first(sch, function_name) ==
    IF timeout_map(function_name) # 5 \/ ~Listed(sch, function_name)
      THEN timeout_map(function_name)
      ELSE SchemaTimeout(sch.tools[CHOOSE i \in 1..Len(sch.tools) :
                                     sch.tools[i].name = function_name].timeout)

\* get_mcp_timeout_for_function, lines 527-561: the first tool of that name
\* in mcp.json decides; the fallback table only when there is none.
get_mcp_timeout_for_function(sch, function_name) ==
    IF Listed(sch, function_name)
      THEN LET first == CHOOSE i \in 1..Len(sch.tools) :
                          /\ sch.tools[i].name = function_name
                          /\ \A j \in 1..(i - 1) : sch.tools[j].name # function_name
           IN  SchemaTimeout(sch.tools[first].timeout)
      ELSE timeout_map(function_name)

\* Commands given to send_mcp_command: text that is no JSON, an initialize
\* request (no params.name), a tools/call request naming a tool.
Commands ==
    { NoCommand, [parses |-> TRUE, method |-> "initialize", name |-> "none"] }
    \cup { [parses |-> TRUE, method |-> "tools/call", name |-> n] : n \in {"quit", "build"} }

\* send_mcp_command, lines 643-649: the function name taken from the command.
FunctionNameOf(cmd) ==
    IF cmd.parses /\ cmd.name # "none" THEN cmd.name ELSE "unknown"

\* ------------------------------------------------------------ the RPC call
\* Response documents are token sequences: "{", the key that stands for the
\* members, "}", and the newline that ends the response.
StatusKeys == {"idle", "b57", "b100", "b100nospace", "other", "empty", "noresult"}
Doc(key) == << "{", key, "}", "\n" >>

\* str.strip(), on the trailing newline.
strip(text) ==
    IF text # << >> /\ text[Len(text)] = "\n" THEN SubSeq(text, 1, Len(text) - 1)
    ELSE text

\* json.loads: the document's key, "JSONDecodeError" for anything else.
json_loads(text) ==
    IF Len(text) = 3 /\ text[1] = "{" /\ text[3] = "}" /\ text[2] \in StatusKeys
      THEN text[2] ELSE "JSONDecodeError"

\* bytes.decode(): fails on bytes that are no UTF-8.
Decodable(bytes) == \A i \in 1..Len(bytes) : bytes[i] # "\\xff"

RECURSIVE Flatten(_)
Flatten(segs) == IF segs = << >> THEN << >> ELSE Head(segs) \o Flatten(Tail(segs))

\* What the server does on one connection: how connect() ends, the segments
\* in which its response arrives, and what follows them (it closes the
\* connection, stays silent, or resets it).
ServerPlans ==
    { [connect |-> c, segs |-> << >>, after |-> "none"] : c \in {"refused", "timeout"} }
    \cup { [connect |-> "ok", segs |-> << >>, after |-> a] : a \in {"eof", "silent", "reset"} }
    \cup { [connect |-> "ok", segs |-> << g >>, after |-> "eof"] : g \in { << "x" >>, << "\\xff" >> } }
    \cup { [connect |-> "ok", segs |-> << Doc(k) >>, after |-> "eof"] : k \in StatusKeys }
    \cup { [connect |-> "ok", segs |-> << SubSeq(Doc(k), 1, 2), SubSeq(Doc(k), 3, 4) >>,
            after |-> "eof"] : k \in StatusKeys }
    \cup { [connect |-> "ok", segs |-> << SubSeq(Doc(k), 1, 2) >>, after |-> a] :
            k \in {"b100"}, a \in {"eof", "silent"} }

\* The server sent a complete JSON document on this connection.
SentDocument(plan) == json_loads(strip(Flatten(plan.segs))) # "JSONDecodeError"

\* The call ends: it returns data (kind "value") or raises (kind "raised").
RpcEnd(kind, data, mode) ==
    /\ rpcResult' = [kind |-> kind, data |-> data]
    /\ rpcMode' = mode
    /\ seen' = seen \cup { << mode, [kind |-> kind, data |-> data] >> }
    /\ rpcPc' = "returned"

\* The socket after an exception ended the call: neither function closes it.
\* send_mcp_command_socket returns "", and the socket object is closed when
\* the interpreter collects it, at once or later; send_tcp_request raises an
\* exception whose traceback keeps the frame, and with it the socket, alive.
UnclosedSockets(f) == IF f = "socket" THEN {"open", "closed"} ELSE {"open"}

\* lines 585-590 and 157-158: the exception handlers.  dt: the time the
\* failing call took.
RpcFail(mode, dt) ==
    /\ RpcEnd(IF rpcFn = "socket" THEN "value" ELSE "raised", << >>, mode)
    /\ sock' \in UnclosedSockets(rpcFn)
    /\ clock' = clock + dt

\* send_mcp_command, lines 639-652: the function name comes from params.name.
SendMcpCommand ==
    /\ rpcPc = "c_parse"
    /\ fname' = FunctionNameOf(command)
    /\ rpcPc' = "s_begin"
    /\ UNCHANGED << fn, clock, rcVars, verifyVars, pollVars >>
    /\ UNCHANGED << schema, command, timeout_seconds, rpcFn, sock, srv, nread, rx,
                    rpcResult, rpcMode, seen >>
    /\ UNCHANGED << pipelineVars, toolVars >>

\* lines 567-571 and 132-133: the timeout, the socket, settimeout.
RpcBegin ==
    /\ rpcPc = "s_begin"
    /\ timeout_seconds' = IF rpcFn = "socket"
                            THEN get_mcp_timeout_for_function(schema, fname)
                            ELSE TcpTimeout
    /\ sock' = "open"
    /\ rpcPc' = "s_connect"
    /\ UNCHANGED << fn, clock, rcVars, verifyVars, pollVars >>
    /\ UNCHANGED << schema, fname, command, rpcFn, srv, nread, rx, rpcResult, rpcMode, seen >>
    /\ UNCHANGED << pipelineVars, toolVars >>

\* lines 574 and 134: sock.connect.
RpcConnect ==
    /\ rpcPc = "s_connect"
    /\ \E plan \in ServerPlans :
        /\ srv' = plan
        /\ CASE plan.connect = "refused" -> RpcFail("refused", 0)
             [] plan.connect = "timeout" -> RpcFail("timeout", timeout_seconds)
             [] OTHER -> /\ rpcPc' = "s_send"
                         /\ UNCHANGED << sock, clock, rpcResult, rpcMode, seen >>
    /\ UNCHANGED << fn, rcVars, verifyVars, pollVars >>
    /\ UNCHANGED << schema, fname, command, timeout_seconds, rpcFn, nread, rx >>
    /\ UNCHANGED << pipelineVars, toolVars >>

\* lines 577 and 137: sock.send.
RpcSend ==
    /\ rpcPc = "s_send"
    /\ \E sent \in BOOLEAN :
        IF sent THEN /\ rpcPc' = "s_recv"
                     /\ UNCHANGED << sock, clock, rpcResult, rpcMode, seen >>
                ELSE RpcFail("error", 0)
    /\ UNCHANGED << fn, rcVars, verifyVars, pollVars >>
    /\ UNCHANGED << schema, fname, command, timeout_seconds, rpcFn, srv, nread, rx >>
    /\ UNCHANGED << pipelineVars, toolVars >>

\* line 580: send_mcp_command_socket calls recv once; lines 141-153:
\* send_tcp_request reads until the data parses or the connection ends.
ReadsUntilComplete(f) == f = "tcp"

\* lines 580 and 141-153: sock.recv(4096) returns the next segment, b'' when
\* the server has closed the connection, or fails.
RpcRecv ==
    /\ rpcPc = "s_recv"
    /\ IF nread < Len(srv.segs)
         THEN LET chunk == srv.segs[nread + 1]
                  data == rx \o chunk
              IN  /\ nread' = nread + 1
                  /\ IF ReadsUntilComplete(rpcFn)
                       THEN /\ rx' = data
                            /\ rpcPc' = IF Decodable(data)
                                           /\ json_loads(strip(data)) # "JSONDecodeError"
                                          THEN "s_close" ELSE "s_recv"
                            /\ UNCHANGED << sock, clock, rpcResult, rpcMode, seen >>
                       ELSE IF Decodable(chunk)
                              THEN /\ rx' = chunk
                                   /\ rpcPc' = "s_close"
                                   /\ UNCHANGED << sock, clock, rpcResult, rpcMode, seen >>
                              ELSE /\ RpcFail("decode", 0)
                                   /\ UNCHANGED rx
         ELSE /\ UNCHANGED << nread, rx >>
              /\ CASE srv.after = "eof" -> /\ rpcPc' = "s_close"
                                           /\ UNCHANGED << sock, clock, rpcResult, rpcMode, seen >>
                   [] srv.after = "silent" -> RpcFail("timeout", timeout_seconds)
                   [] OTHER -> RpcFail("error", 0)
    /\ UNCHANGED << fn, rcVars, verifyVars, pollVars >>
    /\ UNCHANGED << schema, fname, command, timeout_seconds, rpcFn, srv >>
    /\ UNCHANGED << pipelineVars, toolVars >>

\* lines 581-583 and 155-156: sock.close(), then the data received, decoded
\* and stripped, is returned.
RpcClose ==
    /\ rpcPc = "s_close"
    /\ sock' = "closed"
    /\ IF Decodable(rx)
         THEN RpcEnd("value", strip(rx), IF SentDocument(srv) THEN "ok" ELSE "protocol")
         ELSE RpcEnd("raised", << >>, "decode")
    /\ UNCHANGED << fn, clock, rcVars, verifyVars, pollVars >>
    /\ UNCHANGED << schema, fname, command, timeout_seconds, rpcFn, srv, nread, rx >>
    /\ UNCHANGED << pipelineVars, toolVars >>

\* -------------------------------------------------------- poll_build_status
MaxPollTime == 3              \* largest max_poll_time tried
PollSleep == 2                \* time.sleep(2) between two status queries

\* `"result" in status_data`: every document but an error reply has one.
HasResult(key) == key # "noresult"

\* status_data["result"], as tokens.
ResultText(key) ==
    CASE key = "idle" -> << "Status: Not building" >>
      [] key = "b57" -> << "Building:", " ", "5", "7", "%" >>
      [] key = "b100" -> << "Building:", " ", "1", "0", "0", "%" >>
      [] key = "b100nospace" -> << "Building:", "1", "0", "0", "%" >>
      [] key = "other" -> << "Compiling" >>
      [] OTHER -> << >>

\* `token in status_text`.
InText(token, text) == \E i \in 1..Len(text) : text[i] = token

\* re.search(r'Building: (\d+)%', status_text): the leftmost match's group.
re_search(text) ==
    LET Ends(i) == { e \in (i + 3)..Len(text) :
                       /\ text[e] = "%"
                       /\ \A j \in (i + 2)..(e - 1) : IsDigit(text[j]) }
        starts == { i \in 1..Len(text) :
                      /\ text[i] = "Building:"
                      /\ i + 1 <= Len(text) /\ text[i + 1] = " "
                      /\ Ends(i) # {} }
    IN  IF starts = {} THEN [matched |-> FALSE, group |-> << >>]
        ELSE LET i == CHOOSE k \in starts : \A m \in starts : k <= m
                 e == CHOOSE k \in Ends(i) : TRUE
             IN  [matched |-> TRUE, group |-> SubSeq(text, i + 2, e - 1)]

\* A poll_build_status that takes every progress report for completion.
StatusCompleteOnAnyProgress(text) ==
    IF InText("Building:", text) /\ InText("%", text)
      THEN re_search(text).matched
      ELSE InText("Status: Not building", text)

\* poll_build_status, lines 610-625: the status text says the build is over.
StatusComplete(text) ==
    IF InText("Building:", text) /\ InText("%", text)
      THEN LET match == re_search(text) IN match.matched /\ int(match.group) = 100
      ELSE InText("Status: Not building", text)

\* poll_build_status, lines 603-627: the response ends the polling.
ResponseComplete(response) ==
    /\ response # << >>
    /\ LET status_data == json_loads(response) IN
        /\ status_data # "JSONDecodeError"
        /\ HasResult(status_data)
        /\ ResultText(status_data) # << >>
        /\ StatusComplete(ResultText(status_data))

\* A poll_build_status that polls once more after the budget is spent.
WithinBudgetOrEqual(now, start, max_poll_time) == now - start <= max_poll_time

\* poll_build_status, line 597: the loop condition.
WithinBudget(now, start, max_poll_time) == now - start < max_poll_time

\* mcp.json as poll_build_status may find it.
PollSchemas ==
    { NoSchema,
      [readable |-> TRUE, tools |-> << [name |-> "getBuildStatus", timeout |-> "1 minute"] >>] }

PollInit ==
    /\ pollMax \in 0..MaxPollTime
    /\ pollPc = "p_loop"
    /\ pollStart = 0
    /\ pollRet = "none"

\* poll_build_status, lines 597-601 and 636-637: another status query while
\* the budget lasts, else False.
PollLoop ==
    /\ pollPc = "p_loop"
    /\ IF WithinBudget(clock, pollStart, pollMax)
         THEN /\ pollPc' = "p_call"
              /\ fname' = "getBuildStatus"
              /\ rpcFn' = "socket"
              /\ rpcPc' = "s_begin"
              /\ sock' = "none"
              /\ srv' = NoServer
              /\ nread' = 0
              /\ rx' = << >>
              /\ rpcResult' = NoResult
              /\ rpcMode' = "none"
              /\ UNCHANGED pollRet
         ELSE /\ pollPc' = "returned"
              /\ pollRet' = BoolStr(FALSE)
              /\ UNCHANGED << fname, rpcFn, rpcPc, sock, srv, nread, rx, rpcResult, rpcMode >>
    /\ UNCHANGED << fn, clock, rcVars, verifyVars, pollMax, pollStart >>
    /\ UNCHANGED << schema, command, timeout_seconds, seen >>
    /\ UNCHANGED << pipelineVars, toolVars >>

\* poll_build_status, lines 603-634: True on a complete status, else sleep.
PollInterpret ==
    /\ pollPc = "p_call"
    /\ rpcPc = "returned"
    /\ IF ResponseComplete(rpcResult.data)
         THEN /\ pollPc' = "returned"
              /\ pollRet' = BoolStr(TRUE)
              /\ UNCHANGED clock
         ELSE /\ pollPc' = "p_loop"
              /\ clock' = clock + PollSleep
              /\ UNCHANGED pollRet
    /\ UNCHANGED << fn, rcVars, verifyVars, rpcVars, pollMax, pollStart >>
    /\ UNCHANGED << pipelineVars, toolVars >>

\* ------------------------------------------------------- the specifications
\* The pipeline is not running while single functions are exercised.
PipelineIdle ==
    /\ system \in Systems
    /\ samePath = TRUE
    /\ config = "none"
    /\ pc = "idle"
    /\ exitCode = -1
    /\ endedAt = "none"
    /\ done = << >>
    /\ failed = {}
    /\ nominal = FALSE
    /\ lastLive = "none"
    /\ cmdSinceCheck = FALSE
    /\ elapsed = 0
    /\ cycleLog = << >>
    /\ cycleStartLive = FALSE
    /\ killResult = "none"
    /\ forceIssued = FALSE
    /\ quitSent = FALSE
    /\ cmakeState = "ok"
    /\ cmakePatch = 0
    /\ headerPatch = 0
    /\ reported = [kind |-> "none", ver |-> << >>]
    /\ cfgEnv = [probed |-> FALSE, cache |-> FALSE, qt_version |-> FALSE]
    /\ built = [bin |-> TRUE, json |-> TRUE, disc |-> TRUE]
    /\ copied = "none"
    /\ handlers = FALSE
    /\ mon = "none" /\ cmake = "none" /\ warned = NoWarning
    /\ inst = [d \in Dirs |-> NoFiles]

\* The arguments of an RPC call through function f.
RpcInit(f) ==
    /\ seen = {}
    /\ sock = "none"
    /\ srv = NoServer
    /\ nread = 0
    /\ rx = << >>
    /\ rpcResult = NoResult
    /\ rpcMode = "none"
    /\ timeout_seconds = -1
    /\ CASE f = "send_mcp_command" ->
              /\ schema \in Schemas
              /\ command \in Commands
              /\ fname = "none"
              /\ rpcFn = "socket"
              /\ rpcPc = "c_parse"
         [] f = "send_mcp_command_socket" ->
              /\ schema \in Schemas
              /\ command = NoCommand
              /\ fname \in FunctionNames
              /\ rpcFn = "socket"
              /\ rpcPc = "s_begin"
         [] f = "send_tcp_request" ->
              /\ schema = NoSchema
              /\ command = NoCommand
              /\ fname = "none"
              /\ rpcFn = "tcp"
              /\ rpcPc = "s_begin"
         [] OTHER ->
              /\ schema \in PollSchemas
              /\ command = NoCommand
              /\ fname = "none"
              /\ rpcFn = "none"
              /\ rpcPc = "idle"

LibInit ==
    /\ PipelineIdle /\ running = FALSE /\ rpcUp = FALSE
    /\ QuitIdle /\ SuiteIdle /\ LaunchIdle
    /\ clock = 0
    /\ fn \in {"run_command", "verify", "test_mcp_version", "send_mcp_command",
               "send_mcp_command_socket", "send_tcp_request"}
    /\ IF fn = "run_command" THEN RcInit ELSE RcIdle
    /\ CASE fn = "verify" -> VerifyInit
         [] fn = "test_mcp_version" ->
              /\ verifyArgs = [builtExists |-> FALSE, installed |-> Absent]
              /\ verifyRet = "none"
              /\ response_data \in InitializeResponses
              /\ versionRet = "none"
              /\ system = "linux"          \* test_mcp_version reads no platform
         [] OTHER -> VerifyIdle
    /\ IF fn \in {"send_mcp_command", "send_mcp_command_socket", "send_tcp_request"}
         THEN RpcInit(fn) /\ system = "linux"    \* the RPC functions read no platform
         ELSE RpcIdle
    /\ PollIdle

LibNext ==
    \/ RcPopen
    \/ RcPoll
    \/ RcReadline
    \/ RcWait
    \/ RcFinish
    \/ ChildWrites
    \/ ChildExits
    \/ Tick
    \/ VerifyCall
    \/ TestMcpVersionCall
    \/ SendMcpCommand
    \/ RpcBegin
    \/ RpcConnect
    \/ RpcSend
    \/ RpcRecv
    \/ RpcClose

\* Single calls of run_command, verify_plugin_installation and the RPC
\* functions.
LibSpec == LibInit /\ [][LibNext]_vars

PollOnlyInit ==
    /\ PipelineIdle /\ running = FALSE /\ rpcUp = FALSE
    /\ QuitIdle /\ SuiteIdle /\ LaunchIdle
    /\ clock = 0
    /\ fn = "poll_build_status"
    /\ system = "linux"
    /\ RcIdle
    /\ VerifyIdle
    /\ RpcInit(fn)
    /\ PollInit

PollNext ==
    \/ PollLoop
    \/ PollInterpret
    \/ RpcBegin
    \/ RpcConnect
    \/ RpcSend
    \/ RpcRecv
    \/ RpcClose

\* poll_build_status runs in one thread that nothing suspends: every step
\* that can be taken is taken.
PollSpec == PollOnlyInit /\ [][PollNext]_vars /\ WF_vars(PollNext)

\* ------------------------------------------------ quit_qt_creator_gracefully
QuitChecks == 10              \* for i in range(10)

\* A wait loop that takes the target for gone without asking.
QuitConfirmedUnchecked(live) == TRUE

\* quit_qt_creator_gracefully, line 673: `if not is_process_running(...)`.
QuitConfirmed(live) == ~live

\* quit_qt_creator_gracefully, lines 656-683, step by step: the connection
\* test (test_mcp_connection, lines 267-278), the quit request through
\* send_mcp_command_socket (whose steps are RpcBegin to RpcClose, and whose
\* response only chooses the message printed), and the wait loop of liveness
\* checks with time.sleep(1) after each.
quit_qt_creator_gracefully ==
    /\ \/ /\ quitPc = "q_test"
          /\ \E connected \in BOOLEAN :
               IF rpcUp /\ connected
                 THEN quitPc' = "q_send" /\ UNCHANGED quitRet
                 ELSE quitPc' = "returned" /\ quitRet' = "False"
          /\ UNCHANGED << quitI, quitSent, lastLive, cmdSinceCheck >>
          /\ UNCHANGED << fname, rpcFn, rpcPc, sock, srv, nread, rx, rpcResult, rpcMode >>
       \/ /\ quitPc = "q_send"
          /\ quitSent' = TRUE
          /\ quitPc' = "q_call"
          /\ fname' = "quit"
          /\ rpcFn' = "socket"
          /\ rpcPc' = "s_begin"
          /\ sock' = "none"
          /\ srv' = NoServer
          /\ nread' = 0
          /\ rx' = << >>
          /\ rpcResult' = NoResult
          /\ rpcMode' = "none"
          /\ UNCHANGED << quitI, quitRet, lastLive, cmdSinceCheck >>
       \/ /\ quitPc = "q_call"
          /\ rpcPc = "returned"
          /\ quitPc' = "q_check"
          /\ UNCHANGED << quitI, quitRet, quitSent, lastLive, cmdSinceCheck >>
          /\ UNCHANGED << fname, rpcFn, rpcPc, sock, srv, nread, rx, rpcResult, rpcMode >>
       \/ /\ quitPc = "q_check"
          /\ quitI' = quitI + 1
          /\ \E probeOk \in BOOLEAN :
               LET live == is_process_running(probeOk) IN
               /\ Checked(live)
               /\ IF QuitConfirmed(live)
                    THEN quitPc' = "returned" /\ quitRet' = "True"
                    ELSE quitPc' = "q_sleep" /\ UNCHANGED quitRet
          /\ UNCHANGED quitSent
          /\ UNCHANGED << fname, rpcFn, rpcPc, sock, srv, nread, rx, rpcResult, rpcMode >>
       \/ /\ quitPc = "q_sleep"
          /\ IF quitI < QuitChecks
               THEN quitPc' = "q_check" /\ UNCHANGED quitRet
               ELSE quitPc' = "returned" /\ quitRet' = "False"
          /\ UNCHANGED << quitI, quitSent, lastLive, cmdSinceCheck >>
          /\ UNCHANGED << fname, rpcFn, rpcPc, sock, srv, nread, rx, rpcResult, rpcMode >>
    /\ UNCHANGED << schema, command, timeout_seconds, seen >>
    /\ UNCHANGED << cfgVars, mainVars, nominal, running, elapsed, cycleLog, cycleStartLive,
                    killResult, forceIssued, rpcUp, versionVars, fileVars, handlers, monVars,
                    fn, clock, rcVars, verifyVars, pollVars, suiteVars, launchVars >>

\* The endpoint lives in the target: it is gone when the target is.
QuitInit ==
    /\ PipelineIdle
    /\ running \in BOOLEAN
    /\ rpcUp \in (IF running THEN BOOLEAN ELSE {FALSE})
    /\ fn = "quit_qt_creator_gracefully"
    /\ clock = 0
    /\ RcIdle /\ VerifyIdle /\ RpcInit(fn) /\ PollIdle
    /\ SuiteIdle /\ LaunchIdle
    /\ quitPc = "q_test" /\ quitI = 0 /\ quitRet = "none"

QuitNext ==
    \/ quit_qt_creator_gracefully
    \/ RpcBegin
    \/ RpcConnect
    \/ RpcSend
    \/ RpcRecv
    \/ RpcClose
    \/ TargetExits
    \/ TargetStarts

\* One call of quit_qt_creator_gracefully, with a target that may exit (on
\* the request or by itself) or be started at any moment.
QuitSpec == QuitInit /\ [][QuitNext]_vars

\* ------------------------------------------------------------ test_suite.py
MaxAttempts == 2              \* largest --max-attempts tried

\* TestResult.add_test, lines 84-95.
add_test(r, name, success) ==
    [passed |-> r.passed + (IF success THEN 1 ELSE 0),
     failed |-> r.failed + (IF success THEN 0 ELSE 1),
     tests |-> Append(r.tests, [name |-> name, success |-> success])]

\* The tests main() runs in each of its sections (lines 688-705), each with
\* the transports its function sends requests over.
SuiteTests(section) ==
    CASE section = "tcp" ->
           << [name |-> "TCP Initialize Request", via |-> {"tcp"}],
              [name |-> "TCP Tools List Request", via |-> {"tcp"}] >>
      [] section = "http" ->
           << [name |-> "HTTP GET Request", via |-> {"http"}],
              [name |-> "HTTP Initialize Request", via |-> {"http"}],
              [name |-> "HTTP Tools List Request", via |-> {"http"}],
              [name |-> "CORS Preflight Request", via |-> {"http"}] >>
      [] section = "protocol" ->
           << [name |-> "HTTP Protocol Detection", via |-> {"http"}],
              [name |-> "Protocol Consistency", via |-> {"http", "tcp"}] >>
      [] OTHER ->
           << [name |-> "Plugin Version Check", via |-> {"tcp"}] >>

\* main, lines 688 and 693: the sections --http-only and --tcp-only skip.
Skipped(a, section) ==
    \/ section = "tcp" /\ a.http_only
    \/ section = "http" /\ a.tcp_only

NextSection(section) ==
    CASE section = "tcp" -> "http"
      [] section = "http" -> "protocol"
      [] section = "protocol" -> "version"
      [] OTHER -> "summary"

\* What a test meets: the server answers as expected, answers otherwise (or
\* not in time), or refuses the connection so that no request is sent.
RECURSIVE RunTests(_, _, _)
RunTests(r, tests, outcome) ==
    IF tests = << >> THEN r
    ELSE RunTests(add_test(r, tests[1].name, outcome[Len(outcome) - Len(tests) + 1] = "pass"),
                  Tail(tests), outcome)

\* iterative_test, lines 602-622, one turn of its loop.
iterative_test ==
    /\ suitePc = "iterative"
    /\ IF attempts < args.max_attempts
         THEN /\ attempts' = attempts + 1
              /\ \E up \in BOOLEAN :
                   IF up
                     THEN /\ testResult' = add_test(add_test(testResult, "TCP Connection", TRUE),
                                                     "Iterative Connection", TRUE)
                          /\ suitePc' = "tcp"
                          /\ UNCHANGED slept
                     ELSE /\ testResult' = add_test(testResult, "TCP Connection", FALSE)
                          /\ slept' = IF attempts + 1 < args.max_attempts THEN slept + 1 ELSE slept
                          /\ UNCHANGED suitePc
              /\ UNCHANGED suiteExit
         ELSE /\ testResult' = add_test(testResult, "Iterative Connection", FALSE)
              /\ suitePc' = "exited"
              /\ suiteExit' = 1
              /\ UNCHANGED << attempts, slept >>
    /\ UNCHANGED << args, requests, pipelineVars, fn, clock, rcVars, verifyVars, rpcVars,
                    pollVars, quitVars, launchVars >>

\* test_suite.py main, lines 677-713, section by section.
suite_main ==
    /\ \/ /\ suitePc = "connect"
          /\ \E up \in BOOLEAN :
               /\ testResult' = add_test(testResult, "TCP Connection", up)
               /\ IF up THEN suitePc' = "tcp" /\ UNCHANGED suiteExit
                        ELSE suitePc' = "exited" /\ suiteExit' = 1
          /\ UNCHANGED requests
       \/ /\ suitePc \in {"tcp", "http", "protocol", "version"}
          /\ suitePc' = NextSection(suitePc)
          /\ IF Skipped(args, suitePc)
               THEN UNCHANGED << testResult, requests >>
               ELSE LET tests == SuiteTests(suitePc) IN
                    \E outcome \in [1..Len(tests) -> {"pass", "fail", "refused"}] :
                        /\ testResult' = RunTests(testResult, tests, outcome)
                        /\ requests' = requests \cup
                             UNION { tests[i].via : i \in { j \in 1..Len(tests) : outcome[j] # "refused" } }
          /\ UNCHANGED suiteExit
       \/ /\ suitePc = "summary"
          /\ suitePc' = "exited"
          /\ suiteExit' = IF testResult.failed = 0 THEN 0 ELSE 1
          /\ UNCHANGED << testResult, requests >>
    /\ UNCHANGED << args, attempts, slept, pipelineVars, fn, clock, rcVars, verifyVars,
                    rpcVars, pollVars, quitVars, launchVars >>

SuiteInit ==
    /\ PipelineIdle /\ running = FALSE /\ rpcUp = FALSE
    /\ system = "linux"
    /\ fn = "test_suite"
    /\ clock = 0
    /\ RcIdle /\ VerifyIdle /\ RpcIdle /\ PollIdle
    /\ QuitIdle /\ LaunchIdle
    /\ args \in [http_only : BOOLEAN, tcp_only : BOOLEAN, iterative : BOOLEAN,
                  max_attempts : 0..MaxAttempts]
    /\ ~args.iterative => args.max_attempts = MaxAttempts
    /\ suitePc = IF args.iterative THEN "iterative" ELSE "connect"
    /\ attempts = 0
    /\ testResult = [passed |-> 0, failed |-> 0, tests |-> << >>]
    /\ requests = {}
    /\ slept = 0
    /\ suiteExit = -1

SuiteNext ==
    \/ iterative_test
    \/ suite_main

\* One run of test_suite.py against a server that may answer each connection
\* and each request in any way.
SuiteSpec == SuiteInit /\ [][SuiteNext]_vars

\* ------------------------------------------------------------------ build.py
\* launch_build_main, line 28: `result.returncode == 0 and '3.' in stdout`.
\* Under Python 3 stdout is bytes and the test raises TypeError, which the
\* enclosing `except Exception` turns into `continue`.
FoundPython3(py, probe) == py = 2 /\ probe = "three"

\* launch_build_main, lines 12-44: the interpreter build.py runs under, then
\* one turn of the loop over 'python3' and 'py -3' (the probe finds no such
\* command, another version, or Python 3; the pipeline process is spawned or
\* not), with sys.exit(0) right after subprocess.Popen.
launch_build_main ==
    /\ \/ /\ launchPc = "idle"
          /\ python' \in {2, 3}
          /\ launchPc' = "python3"
          /\ UNCHANGED launchExit
       \/ /\ launchPc \in {"python3", "py -3"}
          /\ \E probe \in {"missing", "other", "three"}, spawned \in BOOLEAN :
               IF FoundPython3(python, probe) /\ spawned
                 THEN launchPc' = "launched" /\ launchExit' = 0
                 ELSE IF launchPc = "python3"
                 THEN launchPc' = "py -3" /\ UNCHANGED launchExit
                 ELSE launchPc' = "failed" /\ launchExit' = 1
          /\ UNCHANGED python
    /\ UNCHANGED << pipelineVars, fn, clock, rcVars, verifyVars, rpcVars, pollVars,
                    quitVars, suiteVars >>

\* The pipeline runs once build.py has spawned it.
LauncherNext ==
    \/ launch_build_main
    \/ launchPc = "launched" /\ Next

\* The pipeline started through build.py: the launcher first, then the
\* process it spawned.
LauncherSpec == Init /\ [][LauncherNext]_vars

\* ================================================================== claims
IsPrefix(a, b) == Len(a) <= Len(b) /\ SubSeq(b, 1, Len(a)) = a
Occurs(x, seq) == \E i \in 1..Len(seq) : seq[i] = x
KillPcs ==
    {"k_loop", "k_m1", "k_check1", "k_m2", "k_check3", "k_m3", "k_check4", "k_m4",
     "k_timeout"}

\* The stage order of a run in which Configuring is skipped.
OrderWithoutConfiguring == SelectSeq(StageOrder, LAMBDA st : st # "Configuring")

\* C1: the stage actions performed so far are always an initial part of the
\* fixed order Stopping, VersionBump, Configuring, Building, CleaningArtifacts,
\* Installing, VerifyingInstall, Launching, settle delay, VerifyingFunctional,
\* with at most Configuring left out: no stage runs out of order, none is
\* skipped except Configuring, and none runs twice.
C1_StageOrder ==
    IsPrefix(done, StageOrder) \/ IsPrefix(done, OrderWithoutConfiguring)

\* A run performed every stage action, Configuring included, and succeeded.
C1_Witness == pc = "exited" /\ done = StageOrder /\ exitCode = 0

\* C2: fail-fast - a stage that reported failure is the last stage whose
\* action is performed, and a run in which a stage reported failure ends with
\* a non-zero exit code.
C2_FailFast ==
    /\ \A i \in 1..Len(done) : done[i] \in failed => i = Len(done)
    /\ (pc = "exited" /\ failed # {}) => exitCode # 0

\* C3: the exit code is 0 if and only if the run reached Succeeded, that is,
\* every stage up to and including VerifyingFunctional succeeded.
C3_ExitZeroIffSucceeded ==
    pc = "exited" =>
        (exitCode = 0 <=> (endedAt = "Succeeded" /\ failed = {}))

\* C4: on every platform, a run in which the target is not running, every
\* external command succeeds, the artifacts exist and are copied intact and
\* the server answers initialize with the version just bumped ends in Succeeded with
\* exit code 0.
C4_EndToEndSuccess ==
    (pc = "exited" /\ nominal) => (endedAt = "Succeeded" /\ exitCode = 0)

\* C5: on every platform, if the copy commands of Installing reported
\* success and the installed artifact's size then differs from the built
\* artifact's, the run halts at VerifyingInstall with a non-zero exit code
\* and the target is never launched.
C5_SizeMismatchHaltsAtVerify ==
    (pc = "exited" /\ copied = "ok" /\ inst["cfg"].dll.ex
       /\ inst["cfg"].dll.size # BuiltSize)
    => (endedAt = "VerifyingInstall" /\ exitCode # 0 /\ ~Occurs("Launching", done))

\* C6: VersionBump, Configuring and Building are started only while the most
\* recent liveness check of the target answered "not running"; when
\* kill_qt_creator does not succeed the run ends in failure at Stopping
\* without any of them.
C6_NoBuildWhileRunning ==
    /\ pc \in {"m_bump", "m_regen", "m_env", "m_configure", "m_build"} => lastLive = "no"
    /\ (\E st \in {"VersionBump", "Configuring", "Building"} : Occurs(st, done))
         => lastLive = "no"
    /\ killResult \in {"false", "raised"}
         => /\ pc = "exited" /\ exitCode = 1 /\ endedAt = "Stopping"
            /\ done = << "Stopping" >>

\* The target was running, kill_qt_creator stopped it and the build started.
C6_Witness == killResult = "true" /\ forceIssued /\ Occurs("Building", done)

\* C7: when kill_qt_creator returns success, the most recent liveness check
\* answered "not running" and no termination command was issued after it.
C7_SuccessOnlyAfterLivenessCheck ==
    (pc = "m_check2" /\ killResult = "true") => (lastLive = "no" /\ ~cmdSinceCheck)

\* kill_qt_creator returned success in a cycle that issued a termination command.
C7_Witness ==
    pc = "m_check2" /\ killResult = "true" /\ Len(cycleLog) >= 1 /\ elapsed > MethodSleep

\* C8: when the target is running and the RPC endpoint is reachable, a
\* graceful "quit" RPC is sent before any forceful termination command.
C8_GracefulBeforeForceful ==
    (pc \in KillPcs /\ forceIssued /\ rpcUp) => quitSent

\* C9 (as claimed): an attempt cycle that starts while the target is not
\* running issues no termination command.
C9_NotRunningReturnsAtOnce ==
    (pc \in KillPcs /\ Len(cycleLog) >= 1) => cycleStartLive

\* C9 (amended): every attempt cycle first issues the configured kill
\* command; if the liveness check that follows it finds the target not
\* running, kill_qt_creator returns success at once, without issuing another
\* termination command, and Method 2 is issued only after that check found
\* the target running.  (A step in which an unhandled signal ends the run is
\* no step of kill_qt_creator.)
C9_ReturnsAfterFirstCommand ==
    [][ /\ (pc = "k_m1" /\ pc' \notin {"k_m1", "exited"}) => cycleLog' = << "kill_command" >>
        /\ (pc = "k_check1" /\ pc' # "k_check1" /\ lastLive' = "no")
             => (pc' = "m_check2" /\ killResult' = "true" /\ cycleLog' = cycleLog)
        /\ (pc = "k_check1" /\ pc' = "k_m2") => lastLive' = "yes" ]_vars

\* A cycle started with the target not running, issued the kill command and
\* then returned success.
C9_Witness ==
    /\ pc = "m_check2" /\ killResult = "true"
    /\ ~cycleStartLive /\ cycleLog = << "kill_command" >>

\* The escalating order of the termination strategies, per platform.
EscalationOrder(sys) ==
    IF sys = "windows"
      THEN << "kill_command", "kill_tree", "kill_pattern", "kill_window" >>
      ELSE << "kill_command", "pkill9", "killall9" >>

\* C10: within every attempt cycle the termination strategies are issued in
\* the platform's escalating order: each strategy issued stands later in that
\* order than every strategy issued before it in the same cycle.
C10_EscalatingOrder ==
    LET order == EscalationOrder(system)
        Rank(c) == CHOOSE i \in 1..Len(order) : order[i] = c
    IN  /\ \A i \in 1..Len(cycleLog) : Occurs(cycleLog[i], order)
        /\ \A i, j \in 1..Len(cycleLog) :
             i < j => Rank(cycleLog[i]) < Rank(cycleLog[j])

\* A later attempt cycle on Windows issued all four strategies.
C10_Witness ==
    /\ system = "windows"
    /\ cycleLog = EscalationOrder("windows")
    /\ elapsed > 2 * (4 * MethodSleep + CycleSleep)

\* C11: kill_qt_creator returns no later than timeout_seconds after it was
\* called; a return after the budget is exhausted reports success only if the
\* most recent liveness check found the target gone; and no attempt cycle is
\* started once the elapsed time has reached timeout_seconds.
C11_ReturnsWithinBudget ==
    /\ (killResult # "none" /\ pc \in {"m_check2", "exited"}) => elapsed <= TimeoutSeconds
    /\ (pc = "m_check2" /\ elapsed >= TimeoutSeconds) => lastLive = "no"
    /\ pc = "k_m1" => elapsed < TimeoutSeconds

\* C12 (as claimed): whatever the command and its exit code, run_command
\* returns failure when the captured output contains "0 File(s) copied".
C12_ZeroMarkerAlwaysFails ==
    (rcPc = "returned" /\ HasZeroMarker(output_lines)) => rcResult = "False"

\* C12 (amended): for every command whose text contains "xcopy" in any letter
\* case, and every exit code, run_command returns failure when a line of the
\* captured output contains "0 File(s) copied".
C12_ZeroMarkerFailsXcopy ==
    (rcPc = "returned" /\ HasXcopy(rcCmd) /\ HasZeroMarker(output_lines))
    => rcResult = "False"

\* An XCOPY command exited with code 0 after printing the marker.
C12_Witness ==
    /\ rcPc = "returned" /\ rcCmd[1] = "X" /\ child.state = "exited" /\ child.rc = 0
    /\ output_lines = << ZeroMarker >> /\ rcResult = "False"

\* C13: once the command's timeout has elapsed with the child still running,
\* run_command is not waiting in a call that only the child can end (it
\* terminates the child and returns, also when the child is silent or ignores
\* the termination request), and what it returns is failure.
C13_TimeoutTerminatesChild ==
    /\ RcBlocked => clock - rcStart <= EffectiveTimeout(rcTimeout)
    /\ (rcPc = "returned" /\ clock - rcStart > EffectiveTimeout(rcTimeout))
         => rcResult = "False"

\* C14: on every platform verify_plugin_installation returns True exactly
\* when both artifacts exist, their sizes are equal and the installed
\* artifact is not more than the tolerance older than the built one.
C14_VerifyChecksSizeAndTime ==
    verifyRet # "none" =>
        (verifyRet = "True" <=>
            /\ verifyArgs.builtExists
            /\ verifyArgs.installed.ex
            /\ verifyArgs.installed.size = BuiltSize
            /\ verifyArgs.installed.mtime >= BuiltTime - Tolerance)

\* C15: when an RPC call has returned or raised, its socket is closed.
C15_SocketClosedOnReturn == rpcPc = "returned" => sock # "open"

\* A non-empty proper part of a response document.
IsPartial(data) == \E k \in StatusKeys, n \in 1..2 : data = SubSeq(Doc(k), 1, n)

\* C16: when the server sent a complete document, the call returns that
\* document, in however many segments it arrived; and no call returns a
\* partial document as its result.
C16_CompleteDocumentReturned ==
    rpcPc = "returned" =>
        /\ rpcMode = "ok" =>
             rpcResult = [kind |-> "value", data |-> strip(Flatten(srv.segs))]
        /\ rpcResult.kind = "value" => ~IsPartial(rpcResult.data)

\* C17: the result of an RPC call tells success, a refused connection, a
\* timeout and malformed or partial JSON apart: no two calls that ended in
\* different ones of these gave their caller the same result.
C17_FailureModesDistinct ==
    \A p, q \in seen :
        (p[1] \in {"ok", "refused", "timeout", "protocol"}
           /\ q[1] \in {"ok", "refused", "timeout", "protocol"}
           /\ p[2] = q[2])
        => p[1] = q[1]

\* The names in the fallback table of get_mcp_timeout_for_function.
FallbackNames ==
    {"build", "debug", "loadSession", "get_plugin_version", "initialize", "quit"}

CompleteResponses == { << "{", "idle", "}" >>, << "{", "b100", "}" >> }

\* C19: poll_build_status returns True exactly at a response that reports
\* "Status: Not building" or "Building: 100%": when it has interpreted a
\* response it returns True if the response is one of these, and polls on
\* if it reports "Building: 57%", is empty or does not parse.
C19_CompleteExactlyOnIdleOr100 ==
    /\ [](pollRet = "True" => rpcResult.data \in CompleteResponses)
    /\ [][(pollPc = "p_call" /\ pollPc' # "p_call")
            => (pollRet' = "True" <=> rpcResult.data \in CompleteResponses)]_vars

\* After a "Building: 57%" that kept it polling, "Building: 100%" ended it.
C19_Witness ==
    /\ pollRet = "True"
    /\ rpcResult.data = << "{", "b100", "}" >>
    /\ \E p \in seen : p[2].data = << "{", "b57", "}" >>

\* C20: poll_build_status terminates; when it has returned, it returned True
\* at a complete status or False with max_poll_time elapsed; and it starts a
\* status query only while the elapsed time is below max_poll_time.
C20_PollTerminates ==
    /\ <>(pollPc = "returned")
    /\ [](pollPc = "returned" =>
            \/ pollRet = "True" /\ rpcResult.data \in CompleteResponses
            \/ pollRet = "False" /\ clock - pollStart >= pollMax)
    /\ [][(pollPc = "p_loop" /\ pollPc' = "p_call") => clock - pollStart < pollMax]_vars

\* It gave up after a timeout and a refused connection.
C20_Witness ==
    /\ pollPc = "returned" /\ pollRet = "False" /\ pollMax = MaxPollTime
    /\ \E p, q \in seen : p[1] = "timeout" /\ q[1] = "refused"

\* C21: test_mcp_version passes for a version of three parts exactly when the
\* third part denotes an integer that is at least 1 ("1.31.3" passes, "1.31.0"
\* fails); it fails for a version of fewer than three parts, for a patch
\* that is no number, for a response without result and for one that is no JSON.
PositiveNumeral(text) ==
    \E n \in 1..20, zeros \in {<< >>, << "0" >>}, sign \in {<< >>, << "+" >>} :
        text = sign \o zeros \o DecimalText(n)
C21_PassesIffPatchAtLeastOne ==
    versionRet # "none" =>
        LET r == response_data
            parts == split(r.ver)
        IN  /\ (r.kind = "version" /\ Len(parts) = 3)
                   => (versionRet = "True" <=> PositiveNumeral(parts[3]))
            /\ (r.kind = "version" /\ Len(parts) < 3) => versionRet = "False"
            /\ r.kind \in {"empty", "badjson", "noresult"} => versionRet = "False"
            /\ r = [kind |-> "version", ver |-> VersionText(<< "3" >>)] => versionRet = "True"
            /\ r = [kind |-> "version", ver |-> VersionText(<< "0" >>)] => versionRet = "False"
C21_Witness ==
    /\ versionRet = "True"
    /\ response_data = [kind |-> "version", ver |-> VersionText(<< "1", "0" >>)]

\* C22: the run succeeds only if the version the launched server reported is
\* at or above the version VersionBump wrote in this run.
C22_ReportedAtLeastBumped ==
    exitCode = 0 =>
        /\ reported.kind = "version"
        /\ LET parts == split(reported.ver) IN
            /\ Len(parts) >= 3
            /\ Numeral(parts[3])
            /\ SignedInt(parts[3]) >= cmakePatch

\* C23: once VersionBump has reported a failure (bump_version could not read,
\* parse or write version.cmake, or version.h could not be regenerated), no
\* configure, build, clean, install or launch action is performed and the
\* run does not end with exit code 0.
C23_BumpFailureAborts ==
    "VersionBump" \in failed =>
        /\ \A st \in {"Configuring", "Building", "CleaningArtifacts", "Installing", "Launching"} :
              ~Occurs(st, done)
        /\ pc = "exited" => exitCode # 0

\* C24: when the run continues past VersionBump, the patch in version.cmake
\* is one greater than before the stage and version.h carries the same
\* patch.  (version.h is written last: until then it holds the patch both
\* files had when the run started.)
C24_PatchIncrementedAndInSync ==
    [][(pc = "m_regen" /\ pc' = MainNext("m_regen"))
         => (cmakePatch' = headerPatch + 1 /\ headerPatch' = cmakePatch')]_vars

\* C25: when clean_old_plugins has returned success, none of the previously
\* installed plugin files exists in the directory install_plugin copies into.
C25_CleanLeavesNothing == pc = "m_install" => inst[InstallDir] = NoFiles

C29_ConfigErrorExitsBeforeAnyStage ==
    /\ [](config = "RuntimeError" =>
            /\ pc = "exited" /\ exitCode # 0
            /\ done = << >>
            /\ lastLive = "none" /\ ~forceIssued /\ cycleLog = << >> /\ ~quitSent
            /\ ~cfgEnv.probed /\ copied = "none" /\ reported.kind = "none")
    /\ [][config' = "RuntimeError" =>
            UNCHANGED << running, versionVars, fileVars, rpcUp >>]_vars
C29_Witness ==
    config = "RuntimeError" /\ endedAt = "ConfigurationError" /\ exitCode = 1

\* C26: the monitor is advisory.  No step of the monitor thread changes
\* anything the main thread reads or the run's outcome; the main thread can
\* always take its next step, whatever the monitor is doing (it never waits
\* for it); and when the build command is over, its success and its failure
\* both lead on wherever the monitor is.
C26_MonitorAdvisory ==
    /\ [][((mon # "none" /\ mon' # mon) \/ warned' # warned) =>
            UNCHANGED << cfgVars, mainVars, nominal, running, killVars, rpcUp, quitSent,
                         versionVars, fileVars, handlers, cmake >>]_vars
    /\ [](pc # "exited" => ENABLED MainStep)
    /\ [](pc = "m_building" /\ cmake = "gone" =>
            /\ ENABLED (Build /\ pc' = MainNext("m_build"))
            /\ ENABLED (Build /\ exitCode' = 1))
C26_Witness ==
    /\ exitCode = 0
    /\ warned # NoWarning
    /\ mon = "returned"

\* C27: the monitor warns only when the build process had been started and
\* was found gone while the build command had not returned yet.
C27_WarnsOnlyOnVanishDuringBuild ==
    warned # NoWarning => (warned.pc = "m_building" /\ warned.cmake = "gone")

\* C28: a SIGINT or SIGTERM delivered at any point of the run is caught and
\* the run goes on: no run is ended by a signal, and the step in which a
\* signal arrives changes nothing of the run.
C28_SignalsNeverEndRun ==
    endedAt \notin {"Interrupted", "Killed"}

\* C33: kill_qt_creator returns a boolean on every path and never raises.
C33_KillReturnsBoolean ==
    killResult \in {"none", "true", "false"}

\* C34: kill_qt_creator returns failure only if the target is still running
\* when it returns: it does not return False over a target that a
\* termination command issued after the last liveness check has ended.
C34_FailureOnlyIfStillRunning ==
    [][(killResult # "false" /\ killResult' = "false" /\ cmdSinceCheck) => running']_vars

\* C36: the directory CleaningArtifacts clears, the directory Installing
\* copies into and the path VerifyingInstall inspects are one location: after
\* a successful copy the binary that is verified is the binary that was copied.
C36_VerifiedIsCopied ==
    (pc = "m_verify" /\ copied = "ok") =>
        /\ InstallDir = "cfg"
        /\ inst["cfg"].dll = inst[InstallDir].dll

\* C37: install_plugin reports success to main exactly when every artifact
\* file existed and was copied by a copy command that succeeded, on every
\* platform branch.
C37_SuccessIffAllCopied ==
    copied # "none" => (copied = "ok" <=> "Installing" \notin failed)

\* C32: run_command returns success for a copy command that exits 0 within
\* its timeout and whose every output line reports a count of copied files
\* of at least 1 (10 and 20 included).
C32_NonZeroCountSucceeds ==
    ( /\ rcPc = "returned" /\ rcTimeout = NoTimeout
      /\ child.state = "exited" /\ child.rc = 0
      /\ output_lines # << >>
      /\ \A i \in 1..Len(output_lines) :
            int(SubSeq(output_lines[i], 1, Len(output_lines[i]) - 1)) >= 1 )
    => rcResult = "True"

\* C38: when mcp.json is readable and lists a tool named as the method, the
\* timeout of (the first listing in) mcp.json is used, whatever the hardcoded
\* table holds for that name; the hardcoded table decides only when mcp.json
\* is unreadable or lists no tool of that name.
C38_SchemaBeforeTable ==
    (rpcFn = "socket" /\ timeout_seconds # -1) =>
        LET listings == IF schema.readable
                          THEN { i \in 1..Len(schema.tools) : schema.tools[i].name = fname }
                          ELSE {}
        IN  IF listings # {}
              THEN LET first == CHOOSE i \in listings : \A j \in listings : i <= j
                   IN  timeout_seconds = SchemaTimeout(schema.tools[first].timeout)
              ELSE timeout_seconds = timeout_map(fname)
\* quit, 1 second in the hardcoded table, got the 60 seconds of mcp.json.
C38_Witness ==
    /\ rpcFn = "socket" /\ fname = "quit"
    /\ schema.readable /\ Len(schema.tools) >= 1
    /\ schema.tools[1] = [name |-> "quit", timeout |-> "1 minute"]
    /\ timeout_map(fname) = 1
    /\ timeout_seconds = 60

\* C35: quit_qt_creator_gracefully returns True only if a liveness check made
\* after the quit request found the target not running; it makes at most 10
\* liveness checks, each but the first after a sleep of one second; and when
\* the endpoint is not reachable it sends no quit request and returns False.
C35_GracefulQuit ==
    /\ [](quitRet = "True" => (quitSent /\ quitI >= 1 /\ lastLive = "no"))
    /\ [](quitI <= QuitChecks)
    /\ [](quitI >= 1 => (quitSent /\ fname = "quit" /\ rpcPc = "returned"))
    /\ [][(quitPc # "q_check" /\ quitPc' = "q_check") =>
             (IF quitI = 0 THEN quitPc = "q_call" ELSE quitPc = "q_sleep")]_vars
    /\ [][(quitPc = "q_test" /\ quitPc' # "q_test" /\ ~rpcUp) =>
             (quitPc' = "returned" /\ quitRet' = "False" /\ ~quitSent' /\ rpcPc' = "idle")]_vars
\* The target was found gone at the third check after the quit request.
C35_Witness ==
    /\ quitRet = "True" /\ quitI = 3 /\ quitSent /\ ~running

\* C31: with --http-only no raw-TCP request is sent, and with --tcp-only no
\* HTTP request, after the connectivity check.
C31_OnlyChosenTransport ==
    /\ args.http_only => "tcp" \notin requests
    /\ args.tcp_only => "http" \notin requests

\* C39: with --iterative, when one of the first max_attempts connection
\* attempts succeeds and every test run afterwards passes, the suite exits
\* with code 0, whatever the earlier attempts did; iterative_test makes at
\* most max_attempts attempts, stops at the first success and does not sleep
\* after the last attempt.
C39_IterativeExitsZero ==
    args.iterative =>
        /\ ( /\ suiteExit # -1
             /\ \E i \in 1..Len(testResult.tests) :
                   testResult.tests[i] = [name |-> "Iterative Connection", success |-> TRUE]
             /\ \A i \in 1..Len(testResult.tests) :
                   testResult.tests[i].name # "TCP Connection" => testResult.tests[i].success )
           => suiteExit = 0
        /\ attempts <= args.max_attempts
        /\ (suitePc # "iterative" /\ suiteExit # 1) =>
              testResult.tests[attempts] = [name |-> "TCP Connection", success |-> TRUE]
        /\ slept <= attempts
        /\ args.max_attempts > 0 => slept < args.max_attempts

\* C40: started through build.py, the launcher exits with code 0 only if the
\* pipeline it launched succeeded.
C40_LauncherZeroOnlyOnSuccess ==
    (launchExit = 0 /\ pc = "exited") => exitCode = 0

====
